---- MODULE Spec2Model ----
(***************************************************************************)
(* Dependency-graph construction, transitive reduction and DOT rendering   *)
(* of the roo module registry (bin/generate_dependency_graph.py and        *)
(* bin/module_utils.py).                                                   *)
(*                                                                         *)
(* Texts (version strings) are sequences of one-character strings; module  *)
(* names are atomic strings without a "/" in them.                         *)
(***************************************************************************)
EXTENDS Integers, Sequences, FiniteSets, TLC

(***************************************************************************)
(* Bounds of the model.                                                    *)
(***************************************************************************)
\* Total number of bazel_dep declarations kept over all manifests.
MaxEdges == 4

\* The same total for the runs that follow the path search step by step.
SearchMaxEdges == 3

(***************************************************************************)
(* module_utils.Version                                                    *)
(***************************************************************************)
Digits == {"0", "1", "2", "3", "4", "5", "6", "7", "8", "9"}

DigitValue(c) ==
    CASE c = "0" -> 0 [] c = "1" -> 1 [] c = "2" -> 2 [] c = "3" -> 3
      [] c = "4" -> 4 [] c = "5" -> 5 [] c = "6" -> 6 [] c = "7" -> 7
      [] c = "8" -> 8 [] c = "9" -> 9

\* int(text) of a non-empty run of digits.
RECURSIVE ToInt(_)
ToInt(ds) ==
    IF ds = <<>> THEN 0
    ELSE 10 * ToInt(SubSeq(ds, 1, Len(ds) - 1)) + DigitValue(ds[Len(ds)])

\* Length of the longest run of digits that starts at position i of s (\d+ is greedy).
RECURSIVE DigitRun(_, _)
DigitRun(s, i) ==
    IF i <= Len(s) /\ s[i] \in Digits THEN 1 + DigitRun(s, i + 1) ELSE 0

\* The prerelease tag None of a version without a "-tag" suffix.
NoPrerelease == <<>>

\* re.match(r'^(\d+)\.(\d+)\.(\d+)(?:-(.+))?$', s): the four groups, or
\* matched = FALSE.  "$" also matches just before one trailing newline, and
\* "." matches any character but a newline.
VersionMatch(s) ==
    LET t  == IF Len(s) > 0 /\ s[Len(s)] = "\n" THEN SubSeq(s, 1, Len(s) - 1) ELSE s
        n1 == DigitRun(t, 1)
        d1 == n1 + 1
        n2 == DigitRun(t, d1 + 1)
        d2 == d1 + n2 + 1
        n3 == DigitRun(t, d2 + 1)
        e3 == d2 + n3
        tag == SubSeq(t, e3 + 2, Len(t))
        numbers == /\ n1 > 0 /\ d1 <= Len(t) /\ t[d1] = "."
                   /\ n2 > 0 /\ d2 <= Len(t) /\ t[d2] = "."
                   /\ n3 > 0
        suffix == \/ e3 = Len(t)
                  \/ /\ e3 + 2 <= Len(t)
                     /\ t[e3 + 1] = "-"
                     /\ \A k \in 1..Len(tag) : tag[k] # "\n"
    IN  IF numbers /\ suffix
        THEN [matched |-> TRUE,
              g1 |-> SubSeq(t, 1, n1),
              g2 |-> SubSeq(t, d1 + 1, d1 + n2),
              g3 |-> SubSeq(t, d2 + 1, e3),
              g4 |-> IF e3 = Len(t) THEN NoPrerelease ELSE tag]
        ELSE [matched |-> FALSE, g1 |-> <<>>, g2 |-> <<>>, g3 |-> <<>>, g4 |-> NoPrerelease]

\* Version.__init__ raises ValueError exactly when the text does not match.
ValidVersion(s) == VersionMatch(s).matched

\* Version.__init__ on a matching text.
Version(s) ==
    LET m == VersionMatch(s)
    IN  [original   |-> s,
         major      |-> ToInt(m.g1),
         minor      |-> ToInt(m.g2),
         patch      |-> ToInt(m.g3),
         prerelease |-> m.g4]

\* Version.__eq__: the four parsed fields, not the original text.
VersionEq(a, b) ==
    <<a.major, a.minor, a.patch, a.prerelease>> = <<b.major, b.minor, b.patch, b.prerelease>>

\* ord(c) of the characters that occur in the texts of the model.
ord(c) ==
    CASE c = "\n" -> 10 [] c = "-" -> 45 [] c = "." -> 46
      [] c \in Digits -> 48 + DigitValue(c)
      [] c = "a" -> 97 [] c = "b" -> 98 [] c = "v" -> 118

\* s < t of two Python strings: the first differing character decides, a
\* proper prefix is less.
RECURSIVE str_lt(_, _)
str_lt(s, t) ==
    IF t = <<>> THEN FALSE
    ELSE IF s = <<>> THEN TRUE
    ELSE IF s[1] # t[1] THEN ord(s[1]) < ord(t[1])
    ELSE str_lt(Tail(s), Tail(t))

\* (a1, a2, a3) < (b1, b2, b3) of two tuples of integers.
tuple_lt(a, b) ==
    \/ a[1] < b[1]
    \/ a[1] = b[1] /\ a[2] < b[2]
    \/ a[1] = b[1] /\ a[2] = b[2] /\ a[3] < b[3]

\* Variant of Version.__lt__ that compares the numbers only.
VersionLt_numbers_only(self, other) ==
    tuple_lt(<<self.major, self.minor, self.patch>>,
             <<other.major, other.minor, other.patch>>)

\* Version.__lt__.
VersionLt(self, other) ==
    LET self_tuple  == <<self.major, self.minor, self.patch>>
        other_tuple == <<other.major, other.minor, other.patch>>
    IN  IF self_tuple # other_tuple THEN tuple_lt(self_tuple, other_tuple)
        ELSE IF self.prerelease = NoPrerelease /\ other.prerelease # NoPrerelease THEN FALSE
        ELSE IF self.prerelease # NoPrerelease /\ other.prerelease = NoPrerelease THEN TRUE
        ELSE IF self.prerelease # NoPrerelease /\ other.prerelease # NoPrerelease
             THEN str_lt(self.prerelease, other.prerelease)
        ELSE FALSE

\* Variant of Version.__str__ that prints the text without a line break at its end.
VersionStr_stripped(v) ==
    IF v.original # <<>> /\ v.original[Len(v.original)] = "\n"
    THEN SubSeq(v.original, 1, Len(v.original) - 1)
    ELSE v.original

\* Version.__str__.
VersionStr(v) == v.original

\* module_utils.Dependency.__init__.
Dependency(name, version_str) == [name |-> name, version |-> Version(version_str)]

(***************************************************************************)
(* The names that occur in manifests and on disk, in the order of Python's *)
(* string comparison (the order sorted() puts them in).                    *)
(***************************************************************************)
SortedNames == <<"absl", "googletest", "roo_a", "roo_b", "roo_c", "roo_io_arduino">>

Names == {SortedNames[i] : i \in 1..Len(SortedNames)}

\* Variant of sorted(keys) that gives the names in descending order.
Sorted_descending(S) ==
    SelectSeq([i \in 1..Len(SortedNames) |-> SortedNames[Len(SortedNames) + 1 - i]],
              LAMBDA n : n \in S)

\* sorted(keys) of a set of names.
Sorted(S) == SelectSeq(SortedNames, LAMBDA n : n \in S)

\* generate_dependency_graph.IGNORED_MODULES.
IGNORED_MODULES == {"roo_io_arduino"}

\* ignored_deps of parse_module_bazel.
ignored_deps == {"googletest", "rules_proto", "glog"}

\* should_ignore_module (the names of the model hold no "/" to cut at).
should_ignore_module(module_name) == module_name \in IGNORED_MODULES

\* The version texts of the model.
V100 == <<"1", ".", "0", ".", "0">>
V200 == <<"2", ".", "0", ".", "0">>
V0200 == <<"0", "2", ".", "0", ".", "0">>
V20 == <<"2", ".", "0">>

\* The bazel_dep declarations (name, version text) that a manifest of the
\* model may hold.  With the registry below: roo_a@1.0.0, roo_b@2.0.0 and
\* roo_c@2.0.0 are up to date, roo_b@1.0.0 is stale, absl is no module of
\* the registry, googletest is in ignored_deps, roo_io_arduino is in
\* IGNORED_MODULES and "2.0" is no version.
Declarations ==
    { <<"roo_a", V100>>,
      <<"roo_b", V100>>, <<"roo_b", V200>>,
      <<"roo_c", V200>>,
      <<"absl", V100>>,
      <<"googletest", V100>>,
      <<"roo_io_arduino", V100>>,
      <<"roo_b", V20>> }

VARIABLES
    newest_versions,      \* registry module -> its newest Version
    untracked_modules,    \* untracked module -> its Version
    git_statuses,         \* module -> "CLEAN" | "UPDATED" | "DIRTY" | "UNPUBLISHED"
    all_dependencies,     \* module -> sequence of Dependency, in declaration order
    pc,                   \* "scan" while manifests are read, "done" once the document is written
    show_outdated,        \* the --show_outdated flag of the run that wrote the document
    redundant_deps,       \* result of find_redundant_dependencies in generate_dot_file
    modules_with_outdated,\* the set generate_dot_file outlines in red
    checked_dependencies, \* module -> the checked_deps list of the edge loop of generate_dot_file
    dot_nodes,            \* node statements of the document, in file order
    dot_edges,            \* edge statements of the document, in file order
    call_keep_outdated,   \* keep_outdated of the running find_redundant_dependencies call
    position,             \* its outer loops: module k of the iteration, dependency j
    stack,                \* the has_path_through_deps calls in progress, outermost first
    objects,              \* the Version(...) and Dependency(...) constructions made, in order
    modules_dir,          \* directory name under modules/ -> its version directory names, in iterdir() order
    scanned_modules,      \* result of get_modules_and_versions
    manifest,             \* the bazel_dep declarations of a MODULE.bazel, in file order
    parsed_dependencies,  \* the dependencies list parse_module_bazel returned for it
    enumeration,          \* the order in which all_dependencies enumerates its keys
    workspaces,           \* module -> what GitPython reports of its workspace
    module_bazel,         \* the MODULE.bazel of a module directory
    library_json,         \* the library.json of a module directory
    environment,          \* what the commands and questions of a running script will answer
    script_pc,            \* the position of the running script
    commands,             \* the commands the script has run, in order
    error_messages,       \* error_messages of sync_repository
    returned              \* what the script's function returned

vars == <<newest_versions, untracked_modules, git_statuses, all_dependencies, pc,
          show_outdated, redundant_deps, modules_with_outdated, checked_dependencies,
          dot_nodes, dot_edges, call_keep_outdated, position, stack,
          objects, modules_dir, scanned_modules, manifest, parsed_dependencies,
          enumeration, workspaces, module_bazel, library_json, environment, script_pc,
          commands, error_messages, returned>>

\* The state of a find_redundant_dependencies call followed step by step.
search_vars == <<call_keep_outdated, position, stack>>

\* The state of the runs that exercise the Version class, the registry
\* scan, the manifest parser and the enumeration order of the mappings.
library_vars == <<objects, modules_dir, scanned_modules, manifest, parsed_dependencies,
                  enumeration>>

\* The state of the companion scripts (sync.py, pre_release.py,
\* post_release.py, update_module_versions.py) and of the workspaces and
\* files they and the graph generator read.
tool_vars == <<workspaces, module_bazel, library_json, environment, script_pc, commands,
               error_messages, returned>>

\* No file of a module directory is looked at.
NoFile == [exists |-> FALSE, writable |-> FALSE, content |-> <<>>]

\* No script is running and no workspace or file is looked at.
ToolsIdle ==
    /\ workspaces = <<>>
    /\ module_bazel = NoFile
    /\ library_json = NoFile
    /\ environment = <<>>
    /\ script_pc = "idle"
    /\ commands = <<>>
    /\ error_messages = <<>>
    /\ returned = <<>>

\* dict(newest_versions); .update(untracked_modules)
all_modules_of(nv, um) ==
    [n \in (DOMAIN nv) \cup (DOMAIN um) |-> IF n \in DOMAIN um THEN um[n] ELSE nv[n]]

all_modules == all_modules_of(newest_versions, untracked_modules)

\* The (module, position) of every declaration kept in deps.
Slots(deps) == UNION {{<<m, i>> : i \in 1..Len(deps[m])} : m \in DOMAIN deps}

RECURSIVE SumLen(_, _)
SumLen(deps, S) ==
    IF S = {} THEN 0
    ELSE LET m == CHOOSE x \in S : TRUE IN Len(deps[m]) + SumLen(deps, S \ {m})

EdgeCount(deps) == SumLen(deps, DOMAIN deps)

\* Variant of check_dependency_versions that reports a dependency outside the
\* index as not latest.
check_dependency_versions_external_stale(dependencies, nv) ==
    [i \in 1..Len(dependencies) |->
        LET dep == dependencies[i]
        IN  [dep |-> dep,
             is_latest |-> IF dep.name \in DOMAIN nv
                           THEN VersionEq(dep.version, nv[dep.name])
                           ELSE FALSE]]

(***************************************************************************)
(* check_dependency_versions                                               *)
(***************************************************************************)
check_dependency_versions(dependencies, nv) ==
    [i \in 1..Len(dependencies) |->
        LET dep == dependencies[i]
        IN  [dep |-> dep,
             is_latest |-> IF dep.name \in DOMAIN nv
                           THEN VersionEq(dep.version, nv[dep.name])
                           ELSE TRUE]]

\* Variant of find_modules_with_outdated_deps that leaves the inner loop
\* after the first dependency, outdated or not.
find_modules_with_outdated_deps_first_only(deps, nv) ==
    {m \in DOMAIN deps :
        LET checked_deps == check_dependency_versions(deps[m], nv)
        IN  /\ Len(checked_deps) >= 1
            /\ checked_deps[1].dep.name \in DOMAIN nv
            /\ ~checked_deps[1].is_latest}

(***************************************************************************)
(* find_modules_with_outdated_deps                                         *)
(***************************************************************************)
find_modules_with_outdated_deps(deps, nv) ==
    {m \in DOMAIN deps :
        LET checked_deps == check_dependency_versions(deps[m], nv)
        IN  \E i \in 1..Len(checked_deps) :
                /\ checked_deps[i].dep.name \in DOMAIN nv
                /\ ~checked_deps[i].is_latest}

(***************************************************************************)
(* find_redundant_dependencies and its nested has_path_through_deps        *)
(***************************************************************************)
\* Variant of already_visited that never ends a branch.
already_visited_never(start, visited) == FALSE

\* "if start in visited: return False".
already_visited(start, visited) == start \in visited

\* Variant of skip_dep that takes a dependency outside the index for an
\* up-to-date one and follows it.
skip_dep_follows_external(dep, nv, start, target, original_start, only_updated) ==
    \/ start = original_start /\ dep.name = target
    \/ /\ dep.name \in DOMAIN nv
       /\ only_updated /\ ~VersionEq(dep.version, nv[dep.name])

\* The three "continue" tests of the loop of has_path_through_deps: not a
\* known module, the direct edge under test, outdated when only_updated.
skip_dep(dep, nv, start, target, original_start, only_updated) ==
    \/ dep.name \notin DOMAIN nv
    \/ start = original_start /\ dep.name = target
    \/ only_updated /\ ~VersionEq(dep.version, nv[dep.name])

RECURSIVE has_path_through_deps(_, _, _, _, _, _, _)
RECURSIVE scan_deps(_, _, _, _, _, _, _, _)

\* The body of has_path_through_deps: the visited test, then the loop.
has_path_through_deps(deps, nv, start, target, original_start, visited, only_updated) ==
    IF already_visited(start, visited)
    THEN FALSE
    ELSE scan_deps(deps, nv, start, target, original_start,
                   visited \cup {start}, only_updated, 1)

\* Variant of scan_deps that does not skip the direct edge under test.
RECURSIVE scan_deps_keeps_direct_edge(_, _, _, _, _, _, _, _)
scan_deps_keeps_direct_edge(deps, nv, start, target, original_start, visited, only_updated, i) ==
    LET ds == IF start \in DOMAIN deps THEN deps[start] ELSE <<>>
    IN  IF i > Len(ds)
        THEN FALSE
        ELSE LET dep  == ds[i]
                 rest == scan_deps_keeps_direct_edge(deps, nv, start, target, original_start,
                                                     visited, only_updated, i + 1)
             IN  IF dep.name \notin DOMAIN nv THEN rest
                 ELSE IF only_updated /\ ~VersionEq(dep.version, nv[dep.name]) THEN rest
                 ELSE IF dep.name = target THEN TRUE
                 ELSE IF has_path_through_deps(deps, nv, dep.name, target,
                                               original_start, visited, only_updated)
                      THEN TRUE
                      ELSE rest

\* Variant of scan_deps that skips the direct edge under test at its first
\* declaration only, so that a second declaration of it counts as a path.
RECURSIVE scan_deps_skips_first_declaration(_, _, _, _, _, _, _, _)
scan_deps_skips_first_declaration(deps, nv, start, target, original_start, visited, only_updated, i) ==
    LET ds == IF start \in DOMAIN deps THEN deps[start] ELSE <<>>
    IN  IF i > Len(ds)
        THEN FALSE
        ELSE LET dep  == ds[i]
                 rest == scan_deps_skips_first_declaration(deps, nv, start, target,
                                                           original_start, visited,
                                                           only_updated, i + 1)
             IN  IF dep.name \notin DOMAIN nv THEN rest
                 ELSE IF /\ start = original_start /\ dep.name = target
                         /\ \A k \in 1..(i - 1) : ds[k].name # target
                      THEN rest
                 ELSE IF only_updated /\ ~VersionEq(dep.version, nv[dep.name]) THEN rest
                 ELSE IF dep.name = target THEN TRUE
                 ELSE IF has_path_through_deps(deps, nv, dep.name, target,
                                               original_start, visited, only_updated)
                      THEN TRUE
                      ELSE rest

\* The for loop of has_path_through_deps from its i-th dependency on;
\* visited already holds start.
scan_deps(deps, nv, start, target, original_start, visited, only_updated, i) ==
    LET ds == IF start \in DOMAIN deps THEN deps[start] ELSE <<>>
    IN  IF i > Len(ds)
        THEN FALSE
        ELSE LET dep  == ds[i]
                 rest == scan_deps(deps, nv, start, target, original_start,
                                   visited, only_updated, i + 1)
             IN  IF skip_dep(dep, nv, start, target, original_start, only_updated) THEN rest
                 ELSE IF dep.name = target THEN TRUE
                 ELSE IF has_path_through_deps(deps, nv, dep.name, target,
                                               original_start, visited, only_updated)
                      THEN TRUE
                      ELSE rest

\* Variant of find_redundant_dependencies whose preserve-stale search follows
\* dependencies of any version.
find_redundant_dependencies_any_path(deps, nv, keep_outdated) ==
    LET marks(m, i) ==
            LET c == check_dependency_versions(deps[m], nv)[i]
            IN  /\ c.dep.name \in DOMAIN nv
                /\ IF keep_outdated
                   THEN /\ c.is_latest
                        /\ has_path_through_deps(deps, nv, m, c.dep.name, m, {}, FALSE)
                   ELSE has_path_through_deps(deps, nv, m, c.dep.name, m, {}, FALSE)
    IN  {<<s[1], deps[s[1]][s[2]].name>> : s \in {t \in Slots(deps) : marks(t[1], t[2])}}

\* Variant of find_redundant_dependencies that tests outdated dependencies
\* for redundancy in preserve-stale mode too.
find_redundant_dependencies_stale_candidates(deps, nv, keep_outdated) ==
    LET marks(m, i) ==
            LET c == check_dependency_versions(deps[m], nv)[i]
            IN  /\ c.dep.name \in DOMAIN nv
                /\ IF keep_outdated
                   THEN has_path_through_deps(deps, nv, m, c.dep.name, m, {}, TRUE)
                   ELSE has_path_through_deps(deps, nv, m, c.dep.name, m, {}, FALSE)
    IN  {<<s[1], deps[s[1]][s[2]].name>> : s \in {t \in Slots(deps) : marks(t[1], t[2])}}

\* Variant of find_redundant_dependencies that hands the two modes each
\* other's only_updated flag.
find_redundant_dependencies_swapped_flags(deps, nv, keep_outdated) ==
    LET marks(m, i) ==
            LET c == check_dependency_versions(deps[m], nv)[i]
            IN  /\ c.dep.name \in DOMAIN nv
                /\ IF keep_outdated
                   THEN /\ c.is_latest
                        /\ has_path_through_deps(deps, nv, m, c.dep.name, m, {}, FALSE)
                   ELSE has_path_through_deps(deps, nv, m, c.dep.name, m, {}, TRUE)
    IN  {<<s[1], deps[s[1]][s[2]].name>> : s \in {t \in Slots(deps) : marks(t[1], t[2])}}

find_redundant_dependencies(deps, nv, keep_outdated) ==
    LET marks(m, i) ==
            LET c == check_dependency_versions(deps[m], nv)[i]
            IN  /\ c.dep.name \in DOMAIN nv
                /\ IF keep_outdated
                   THEN /\ c.is_latest
                        /\ has_path_through_deps(deps, nv, m, c.dep.name, m, {}, TRUE)
                   ELSE has_path_through_deps(deps, nv, m, c.dep.name, m, {}, FALSE)
    IN  {<<s[1], deps[s[1]][s[2]].name>> : s \in {t \in Slots(deps) : marks(t[1], t[2])}}

(***************************************************************************)
(* generate_dot_file                                                       *)
(***************************************************************************)
\* The fill colour of a node.
fillcolor(git_status, is_untracked) ==
    IF is_untracked
    THEN CASE git_status = "DIRTY" -> "plum"
           [] git_status = "UPDATED" -> "khaki"
           [] git_status = "UNPUBLISHED" -> "lightblue"
           [] OTHER -> "mistyrose"
    ELSE CASE git_status = "DIRTY" -> "plum"
           [] git_status = "UPDATED" -> "khaki"
           [] git_status = "UNPUBLISHED" -> "lightblue"
           [] OTHER -> "#b1dbab"

\* Variant of node_statements that outlines every node in black.
node_statements_outline_black(am, um, gs, with_outdated) ==
    LET order == Sorted(DOMAIN am)
    IN  [k \in 1..Len(order) |->
            LET module_name == order[k]
                git_status  == IF module_name \in DOMAIN gs THEN gs[module_name] ELSE "CLEAN"
            IN  [name      |-> module_name,
                 label     |-> <<module_name, VersionStr(am[module_name])>>,
                 fillcolor |-> fillcolor(git_status, module_name \in DOMAIN um),
                 color     |-> "black"]]

\* Variant of node_statements that writes the registry modules only.
node_statements_registry_only(am, um, gs, with_outdated) ==
    LET order == Sorted((DOMAIN am) \ (DOMAIN um))
    IN  [k \in 1..Len(order) |->
            LET module_name == order[k]
                git_status  == IF module_name \in DOMAIN gs THEN gs[module_name] ELSE "CLEAN"
            IN  [name      |-> module_name,
                 label     |-> <<module_name, VersionStr(am[module_name])>>,
                 fillcolor |-> fillcolor(git_status, FALSE),
                 color     |-> IF module_name \in with_outdated THEN "red" ELSE "black"]]

\* The node statements, one for each key of all_modules, in sorted order.
node_statements(am, um, gs, with_outdated) ==
    LET order == Sorted(DOMAIN am)
    IN  [k \in 1..Len(order) |->
            LET module_name == order[k]
                git_status  == IF module_name \in DOMAIN gs THEN gs[module_name] ELSE "CLEAN"
            IN  [name      |-> module_name,
                 label     |-> <<module_name, VersionStr(am[module_name])>>,
                 fillcolor |-> fillcolor(git_status, module_name \in DOMAIN um),
                 color     |-> IF module_name \in with_outdated THEN "red" ELSE "black"]]

\* Variant of edge_written that drops every redundant edge in both modes.
edge_written_drops_redundant(module_name, c, am, redundant, show) ==
    /\ c.dep.name \in DOMAIN am
    /\ <<module_name, c.dep.name>> \notin redundant

\* Variant of edge_written that keeps outdated redundant edges in both modes.
edge_written_keeps_stale(module_name, c, am, redundant, show) ==
    /\ c.dep.name \in DOMAIN am
    /\ LET is_redundant == <<module_name, c.dep.name>> \in redundant
       IN  ~is_redundant \/ ~c.is_latest

\* Variant of edge_written without the test "dep.name not in all_modules".
edge_written_keeps_external(module_name, c, am, redundant, show) ==
    LET is_redundant == <<module_name, c.dep.name>> \in redundant
    IN  IF show
        THEN ~is_redundant \/ ~c.is_latest
        ELSE ~is_redundant

\* Whether the inner loop body writes a statement for one checked dependency.
edge_written(module_name, c, am, redundant, show) ==
    /\ c.dep.name \in DOMAIN am
    /\ LET is_redundant == <<module_name, c.dep.name>> \in redundant
       IN  IF show
           THEN ~is_redundant \/ ~c.is_latest
           ELSE ~is_redundant

\* The statement written for the index-th dependency of module_name; index
\* is the position of the declaration and is not part of the text.
edge_statement(module_name, index, c, am) ==
    IF c.is_latest
    THEN [source |-> module_name, target |-> c.dep.name, index |-> index,
          color |-> "default", label |-> <<>>]
    ELSE [source |-> module_name, target |-> c.dep.name, index |-> index,
          color |-> "red",
          label |-> <<VersionStr(c.dep.version), VersionStr(am[c.dep.name])>>]

\* Variant of module_edges that stops before the last dependency.
RECURSIVE module_edges_skips_last(_, _, _, _, _, _)
module_edges_skips_last(module_name, checked_deps, i, am, redundant, show) ==
    IF i >= Len(checked_deps)
    THEN <<>>
    ELSE (IF edge_written(module_name, checked_deps[i], am, redundant, show)
          THEN <<edge_statement(module_name, i, checked_deps[i], am)>>
          ELSE <<>>)
         \o module_edges_skips_last(module_name, checked_deps, i + 1, am, redundant, show)

\* The statements of one module from its i-th dependency on, in declaration order.
RECURSIVE module_edges(_, _, _, _, _, _)
module_edges(module_name, checked_deps, i, am, redundant, show) ==
    IF i > Len(checked_deps)
    THEN <<>>
    ELSE (IF edge_written(module_name, checked_deps[i], am, redundant, show)
          THEN <<edge_statement(module_name, i, checked_deps[i], am)>>
          ELSE <<>>)
         \o module_edges(module_name, checked_deps, i + 1, am, redundant, show)

\* The edge statements of the modules order[k..], in that order.
RECURSIVE edge_statements(_, _, _, _, _, _)
edge_statements(order, k, deps, am, redundant, show) ==
    IF k > Len(order)
    THEN <<>>
    ELSE module_edges(order[k], check_dependency_versions(deps[order[k]], am),
                      1, am, redundant, show)
         \o edge_statements(order, k + 1, deps, am, redundant, show)

generate_dot_file(show) ==
    /\ pc = "scan"
    /\ LET am        == all_modules_of(newest_versions, untracked_modules)
           redundant == find_redundant_dependencies(all_dependencies, am, show)
           outdated  == IF ~show
                        THEN find_modules_with_outdated_deps(all_dependencies, am)
                        ELSE {}
       IN  /\ redundant_deps' = redundant
           /\ modules_with_outdated' = outdated
           /\ checked_dependencies' = [m \in DOMAIN all_dependencies |->
                                  check_dependency_versions(all_dependencies[m], am)]
           /\ dot_nodes' = node_statements(am, untracked_modules, git_statuses, outdated)
           /\ dot_edges' = edge_statements(Sorted(DOMAIN all_dependencies), 1,
                                           all_dependencies, am, redundant, show)
    /\ show_outdated' = show
    /\ pc' = "done"
    /\ UNCHANGED <<newest_versions, untracked_modules, git_statuses, all_dependencies>>
    /\ UNCHANGED search_vars
    /\ UNCHANGED library_vars
    /\ UNCHANGED tool_vars

(***************************************************************************)
(* Reading the manifests: one bazel_dep declaration of module's manifest   *)
(* (the loop body of parse_module_bazel, then the filter of                *)
(* get_module_dependencies / get_untracked_dependencies).                  *)
(***************************************************************************)
bazel_dep(module, dep_name, dep_version) ==
    /\ pc = "scan"
    /\ EdgeCount(all_dependencies) < MaxEdges
    /\ IF \/ dep_name \in ignored_deps
          \/ ~ValidVersion(dep_version)
          \/ should_ignore_module(dep_name)
       THEN UNCHANGED all_dependencies
       ELSE all_dependencies' =
                [all_dependencies EXCEPT
                    ![module] = Append(@, Dependency(dep_name, dep_version))]
    /\ UNCHANGED <<newest_versions, untracked_modules, git_statuses, pc, show_outdated,
                   redundant_deps, modules_with_outdated, checked_dependencies, dot_nodes,
                   dot_edges, search_vars>>
    /\ UNCHANGED library_vars
    /\ UNCHANGED tool_vars

(***************************************************************************)
(* The registry on disk: two registry modules and one untracked module.    *)
(***************************************************************************)
RegistryIndex ==
    [n \in {"roo_a", "roo_b"} |->
        IF n = "roo_a" THEN Version(V100) ELSE Version(V200)]

UntrackedIndex == [n \in {"roo_c"} |-> Version(V0200)]

WorkspaceStatuses ==
    [n \in {"roo_a", "roo_b", "roo_c"} |->
        CASE n = "roo_a" -> "CLEAN" [] n = "roo_b" -> "UPDATED" [] OTHER -> "DIRTY"]

Init ==
    /\ newest_versions = RegistryIndex
    /\ untracked_modules = UntrackedIndex
    /\ git_statuses = WorkspaceStatuses
    /\ all_dependencies = [m \in DOMAIN all_modules_of(RegistryIndex, UntrackedIndex) |-> <<>>]
    /\ pc = "scan"
    /\ show_outdated = FALSE
    /\ redundant_deps = {}
    /\ modules_with_outdated = {}
    /\ checked_dependencies = [m \in DOMAIN all_modules_of(RegistryIndex, UntrackedIndex) |-> <<>>]
    /\ dot_nodes = <<>>
    /\ dot_edges = <<>>
    /\ call_keep_outdated = FALSE
    /\ position = [k |-> 1, j |-> 1]
    /\ stack = <<>>
    /\ objects = <<>>
    /\ modules_dir = <<>>
    /\ scanned_modules = <<>>
    /\ manifest = <<>>
    /\ parsed_dependencies = <<>>
    /\ enumeration = <<"roo_a", "roo_b", "roo_c">>
    /\ ToolsIdle

Next ==
    \/ \E module \in DOMAIN all_dependencies, d \in Declarations :
            bazel_dep(module, d[1], d[2])
    \/ \E show \in BOOLEAN : generate_dot_file(show)

Spec == Init /\ [][Next]_vars

(***************************************************************************)
(* The Version class on its own: Version(text) and Dependency(name, text)  *)
(* are constructed for texts of all shapes and the objects are kept.       *)
(***************************************************************************)
\* Number of constructions of one run.
MaxObjects == 3

\* The texts handed to Version(...): well-formed ones (a leading zero, two
\* digits in a field, prerelease tags), ones that are no version (a missing
\* field, an empty tag, a leading "v", a tag with a line break in it) and
\* well-formed ones followed by a line break.
VersionTexts ==
    { V100, V200, V0200,
      <<"1", ".", "9", ".", "0">>,
      <<"1", ".", "1", "0", ".", "0">>,
      <<"1", ".", "0", ".", "0", "-", "a">>,
      <<"1", ".", "0", ".", "0", "-", "a", "b">>,
      <<"1", ".", "0", ".", "0", "-", "b">>,
      V20,
      <<"1", ".", "0", ".", "0", "-">>,
      <<"v", "1", ".", "0", ".", "0">>,
      <<"1", ".", "0", ".", "0", "-", "a", "\n", "b">>,
      <<"1", ".", "0", ".", "0", "\n">>,
      <<"1", ".", "0", ".", "0", "-", "a", "\n">> }

\* The texts handed to Dependency(name, text).
DependencyTexts ==
    { V100, <<"1", ".", "0", ".", "0", "-", "a">>, V20 }

\* The object kept when no object was constructed.
NoObject == [name |-> "", version |-> [original |-> <<>>]]

\* v = Version(version_str): the object, or ValueError raised and no object.
Version_init(version_str) ==
    /\ Len(objects) < MaxObjects
    /\ objects' = Append(objects,
            IF ValidVersion(version_str)
            THEN [text |-> version_str, class |-> "Version", raised |-> "",
                  object |-> Version(version_str)]
            ELSE [text |-> version_str, class |-> "Version", raised |-> "ValueError",
                  object |-> NoObject])
    /\ UNCHANGED <<newest_versions, untracked_modules, git_statuses, all_dependencies, pc,
                   show_outdated, redundant_deps, modules_with_outdated,
                   checked_dependencies, dot_nodes, dot_edges, search_vars, modules_dir,
                   scanned_modules, manifest, parsed_dependencies, enumeration>>
    /\ UNCHANGED tool_vars

\* d = Dependency(name, version_str): Version(version_str) is constructed
\* inside, its ValueError goes through.
Dependency_init(name, version_str) ==
    /\ Len(objects) < MaxObjects
    /\ objects' = Append(objects,
            IF ValidVersion(version_str)
            THEN [text |-> version_str, class |-> "Dependency", raised |-> "",
                  object |-> Dependency(name, version_str)]
            ELSE [text |-> version_str, class |-> "Dependency", raised |-> "ValueError",
                  object |-> NoObject])
    /\ UNCHANGED <<newest_versions, untracked_modules, git_statuses, all_dependencies, pc,
                   show_outdated, redundant_deps, modules_with_outdated,
                   checked_dependencies, dot_nodes, dot_edges, search_vars, modules_dir,
                   scanned_modules, manifest, parsed_dependencies, enumeration>>
    /\ UNCHANGED tool_vars

NextVersion ==
    \/ \E version_str \in VersionTexts : Version_init(version_str)
    \/ \E version_str \in DependencyTexts : Dependency_init("roo_a", version_str)

SpecVersion == Init /\ [][NextVersion]_vars

(***************************************************************************)
(* The registry scan: get_modules_and_versions over the directories under  *)
(* modules/, find_newest_versions over its result, and parse_module_bazel  *)
(* over the bazel_dep declarations of one manifest.                        *)
(***************************************************************************)
\* Number of version directory entries and bazel_dep declarations on disk.
MaxEntries == 4

V120 == <<"1", ".", "2", ".", "0">>
V115 == <<"1", ".", "1", ".", "5">>
V900 == <<"9", ".", "0", ".", "0">>

\* The directories under modules/: two modules, an ignored module and a
\* directory whose name does not start with "roo_".
ModuleDirNames == {"roo_a", "roo_b", "roo_io_arduino", "absl"}

\* The entries a module directory may hold: version directories, one of
\* them with a name that is no version, and a plain file.
VersionEntries ==
    { [name |-> V100, is_dir |-> TRUE],
      [name |-> V120, is_dir |-> TRUE],
      [name |-> V115, is_dir |-> TRUE],
      [name |-> V20, is_dir |-> TRUE],
      [name |-> V900, is_dir |-> FALSE] }

\* The bazel_dep declarations the manifest may hold.
ManifestDeclarations ==
    { <<"roo_a", V100>>, <<"roo_b", V120>>, <<"roo_b", V20>>, <<"googletest", V100>> }

\* module_path.name.startswith("roo_")
starts_with_roo(name) == name \in {"roo_a", "roo_b", "roo_c", "roo_io_arduino"}

\* The versions list of one module directory: Version(version_path.name)
\* of every entry that is a directory, ValueError caught and the entry skipped.
RECURSIVE versions_of(_)
versions_of(entries) ==
    IF entries = <<>> THEN <<>>
    ELSE (IF entries[1].is_dir /\ ValidVersion(entries[1].name)
          THEN <<Version(entries[1].name)>>
          ELSE <<>>)
         \o versions_of(Tail(entries))

\* v put into a list sorted in descending order, behind the elements that
\* are not less than it (sorted() is stable).
RECURSIVE insert_sorted(_, _)
insert_sorted(sorted_versions, v) ==
    IF sorted_versions = <<>> THEN <<v>>
    ELSE IF VersionLt(sorted_versions[1], v) THEN <<v>> \o sorted_versions
    ELSE <<sorted_versions[1]>> \o insert_sorted(Tail(sorted_versions), v)

\* sorted(versions, reverse=True)
RECURSIVE sorted_reverse(_)
sorted_reverse(versions) ==
    IF versions = <<>> THEN <<>>
    ELSE insert_sorted(sorted_reverse(SubSeq(versions, 1, Len(versions) - 1)),
                       versions[Len(versions)])

\* Variant of get_modules_and_versions that gives up a module directory
\* that holds a name that is no version.
get_modules_and_versions_all_or_nothing(dir) ==
    [m \in {d \in DOMAIN dir :
                /\ starts_with_roo(d)
                /\ ~should_ignore_module(d)
                /\ versions_of(dir[d]) # <<>>
                /\ \A i \in 1..Len(dir[d]) : ValidVersion(dir[d][i].name)}
        |-> sorted_reverse(versions_of(dir[m]))]

\* get_modules_and_versions
get_modules_and_versions(dir) ==
    [m \in {d \in DOMAIN dir :
                /\ starts_with_roo(d)
                /\ ~should_ignore_module(d)
                /\ versions_of(dir[d]) # <<>>}
        |-> sorted_reverse(versions_of(dir[m]))]

\* max(versions) of a non-empty list: the first element that none exceeds.
RECURSIVE max_version(_)
max_version(versions) ==
    IF Len(versions) = 1 THEN versions[1]
    ELSE LET maxitem == max_version(SubSeq(versions, 1, Len(versions) - 1))
             item    == versions[Len(versions)]
         IN  IF VersionLt(maxitem, item) THEN item ELSE maxitem

\* Variant of find_newest_versions that takes the last element of the sorted list.
find_newest_versions_last(modules) ==
    [m \in {d \in DOMAIN modules : modules[d] # <<>>} |-> modules[m][Len(modules[m])]]

\* find_newest_versions
find_newest_versions(modules) ==
    [m \in {d \in DOMAIN modules : modules[d] # <<>>} |-> max_version(modules[m])]

\* The dependencies list of parse_module_bazel for the bazel_dep matches
\* content[i..]: a name of ignored_deps is passed over, ValueError of
\* Dependency(...) is caught and the declaration skipped.
RECURSIVE parse_module_bazel(_)
parse_module_bazel(content) ==
    IF content = <<>> THEN <<>>
    ELSE LET dep_name    == content[1][1]
             dep_version == content[1][2]
         IN  (IF dep_name \in ignored_deps \/ ~ValidVersion(dep_version)
              THEN <<>>
              ELSE <<Dependency(dep_name, dep_version)>>)
             \o parse_module_bazel(Tail(content))

\* The number of entries in the module directories.
RECURSIVE CountEntries(_, _)
CountEntries(dir, S) ==
    IF S = {} THEN 0
    ELSE LET d == CHOOSE x \in S : TRUE IN Len(dir[d]) + CountEntries(dir, S \ {d})

\* An entry appears in a module directory (a name occurs once in a directory).
mkdir(module, entry) ==
    /\ pc = "scan"
    /\ CountEntries(modules_dir, DOMAIN modules_dir) + Len(manifest) < MaxEntries
    /\ \A i \in 1..Len(modules_dir[module]) : modules_dir[module][i].name # entry.name
    /\ modules_dir' = [modules_dir EXCEPT ![module] = Append(@, entry)]
    /\ UNCHANGED <<newest_versions, untracked_modules, git_statuses, all_dependencies, pc,
                   show_outdated, redundant_deps, modules_with_outdated,
                   checked_dependencies, dot_nodes, dot_edges, search_vars, objects,
                   scanned_modules, manifest, parsed_dependencies, enumeration>>
    /\ UNCHANGED tool_vars

\* A bazel_dep declaration is added to the manifest.
write_bazel_dep(d) ==
    /\ pc = "scan"
    /\ CountEntries(modules_dir, DOMAIN modules_dir) + Len(manifest) < MaxEntries
    /\ manifest' = Append(manifest, d)
    /\ UNCHANGED <<newest_versions, untracked_modules, git_statuses, all_dependencies, pc,
                   show_outdated, redundant_deps, modules_with_outdated,
                   checked_dependencies, dot_nodes, dot_edges, search_vars, objects,
                   modules_dir, scanned_modules, parsed_dependencies, enumeration>>
    /\ UNCHANGED tool_vars

\* main: modules = get_modules_and_versions(modules_dir),
\* newest_versions = find_newest_versions(modules), and the manifest is
\* read: _, _, dependencies = parse_module_bazel(module_bazel_path).
scan_registry ==
    /\ pc = "scan"
    /\ scanned_modules' = get_modules_and_versions(modules_dir)
    /\ newest_versions' = find_newest_versions(get_modules_and_versions(modules_dir))
    /\ parsed_dependencies' = parse_module_bazel(manifest)
    /\ pc' = "indexed"
    /\ UNCHANGED <<untracked_modules, git_statuses, all_dependencies,
                   show_outdated, redundant_deps, modules_with_outdated,
                   checked_dependencies, dot_nodes, dot_edges, search_vars, objects,
                   modules_dir, manifest, enumeration>>
    /\ UNCHANGED tool_vars

InitScan ==
    /\ newest_versions = <<>>
    /\ untracked_modules = <<>>
    /\ git_statuses = <<>>
    /\ all_dependencies = <<>>
    /\ pc = "scan"
    /\ show_outdated = FALSE
    /\ redundant_deps = {}
    /\ modules_with_outdated = {}
    /\ checked_dependencies = <<>>
    /\ dot_nodes = <<>>
    /\ dot_edges = <<>>
    /\ call_keep_outdated = FALSE
    /\ position = [k |-> 1, j |-> 1]
    /\ stack = <<>>
    /\ objects = <<>>
    /\ modules_dir = [d \in ModuleDirNames |-> <<>>]
    /\ scanned_modules = <<>>
    /\ manifest = <<>>
    /\ parsed_dependencies = <<>>
    /\ enumeration = <<>>
    /\ ToolsIdle

NextScan ==
    \/ \E module \in ModuleDirNames, entry \in VersionEntries : mkdir(module, entry)
    \/ \E d \in ManifestDeclarations : write_bazel_dep(d)
    \/ scan_registry

SpecScan == InitScan /\ [][NextScan]_vars

(***************************************************************************)
(* find_redundant_dependencies followed step by step: the recursion of     *)
(* has_path_through_deps as a stack of calls, inside the two outer loops. A *)
(* frame holds the call's start, its visited set after visited.add(start)  *)
(* and the position i of its loop over the dependencies of start.          *)
(***************************************************************************)
\* The order in which "for module in all_dependencies" yields the modules:
\* the registry modules as listed, then the untracked ones.
iteration_order == enumeration

\* The module and the checked dependency the outer loops are at.
current_module == iteration_order[position.k]

current_checked ==
    check_dependency_versions(all_dependencies[current_module], all_modules)[position.j]

\* The loops "for module" / "for dep, is_latest" run on from dependency j of
\* module k: the position of the next dependency for which
\* has_path_through_deps is called (a known module and, when keep, up to
\* date), or k past the last module when the loops are over.
RECURSIVE outer_loops(_, _, _)
outer_loops(k, j, keep) ==
    IF k > Len(iteration_order)
    THEN [k |-> k, j |-> 1]
    ELSE LET checked == check_dependency_versions(all_dependencies[iteration_order[k]],
                                                  all_modules)
         IN  IF j > Len(checked)
             THEN outer_loops(k + 1, 1, keep)
             ELSE IF \/ checked[j].dep.name \notin DOMAIN all_modules
                     \/ keep /\ ~checked[j].is_latest
             THEN outer_loops(k, j + 1, keep)
             ELSE [k |-> k, j |-> j]

\* Variant of go_on whose outermost call does not add its start to visited.
go_on_without_add(pos) ==
    /\ position' = pos
    /\ IF pos.k > Len(iteration_order)
       THEN /\ pc' = "finished"
            /\ stack' = <<>>
       ELSE /\ pc' = "search"
            /\ stack' = <<[start   |-> iteration_order[pos.k],
                           visited |-> {},
                           i       |-> 1]>>

\* The loops go on to pos: has_path_through_deps(module, dep.name, module,
\* set(), only_updated) is called there, or the set is returned.
go_on(pos) ==
    /\ position' = pos
    /\ IF pos.k > Len(iteration_order)
       THEN /\ pc' = "finished"
            /\ stack' = <<>>
       ELSE /\ pc' = "search"
            /\ stack' = <<[start   |-> iteration_order[pos.k],
                           visited |-> {iteration_order[pos.k]},
                           i       |-> 1]>>

\* find_redundant_dependencies(all_dependencies, all_modules, keep) is called
\* and runs to its first has_path_through_deps call.
call_find_redundant_dependencies(keep) ==
    /\ pc = "scan"
    /\ call_keep_outdated' = keep
    /\ redundant_deps' = {}
    /\ go_on(outer_loops(1, 1, keep))
    /\ UNCHANGED <<newest_versions, untracked_modules, git_statuses, all_dependencies,
                   show_outdated, modules_with_outdated, checked_dependencies,
                   dot_nodes, dot_edges>>
    /\ UNCHANGED library_vars
    /\ UNCHANGED tool_vars

\* One step of the innermost has_path_through_deps call: its loop is over
\* (return False; from the outermost call the outer loops go on), a
\* dependency is passed over, the target is reached (return True), the
\* recursive call returns at once because the module is on the path
\* already, or the recursive call starts.
search_step ==
    /\ pc = "search"
    /\ LET top    == stack[Len(stack)]
           ds     == IF top.start \in DOMAIN all_dependencies
                     THEN all_dependencies[top.start] ELSE <<>>
           target == current_checked.dep.name
           advance(st) == [st EXCEPT ![Len(st)].i = @ + 1]
       IN  IF top.i > Len(ds)
           THEN IF Len(stack) = 1
                THEN go_on(outer_loops(position.k, position.j + 1, call_keep_outdated))
                ELSE /\ stack' = advance(SubSeq(stack, 1, Len(stack) - 1))
                     /\ UNCHANGED <<pc, position>>
           ELSE LET dep == ds[top.i]
                IN  IF skip_dep(dep, all_modules, top.start, target, current_module,
                                call_keep_outdated)
                    THEN /\ stack' = advance(stack)
                         /\ UNCHANGED <<pc, position>>
                    ELSE IF dep.name = target
                    THEN /\ pc' = "return_true"
                         /\ UNCHANGED <<stack, position>>
                    ELSE IF already_visited(dep.name, top.visited)
                    THEN /\ stack' = advance(stack)
                         /\ UNCHANGED <<pc, position>>
                    ELSE /\ stack' = Append(stack,
                                            [start   |-> dep.name,
                                             visited |-> top.visited \cup {dep.name},
                                             i       |-> 1])
                         /\ UNCHANGED <<pc, position>>
    /\ UNCHANGED <<newest_versions, untracked_modules, git_statuses, all_dependencies,
                   show_outdated, redundant_deps, modules_with_outdated,
                   checked_dependencies, dot_nodes, dot_edges, call_keep_outdated>>
    /\ UNCHANGED library_vars
    /\ UNCHANGED tool_vars

\* True is returned through every call in progress, the pair is added and
\* the outer loops go on.
return_true ==
    /\ pc = "return_true"
    /\ redundant_deps' = redundant_deps \cup {<<current_module, current_checked.dep.name>>}
    /\ go_on(outer_loops(position.k, position.j + 1, call_keep_outdated))
    /\ UNCHANGED <<newest_versions, untracked_modules, git_statuses, all_dependencies,
                   show_outdated, modules_with_outdated, checked_dependencies,
                   dot_nodes, dot_edges, call_keep_outdated>>
    /\ UNCHANGED library_vars
    /\ UNCHANGED tool_vars

search_run == search_step \/ return_true

NextSearch ==
    \/ \E module \in DOMAIN all_dependencies, d \in Declarations :
            /\ EdgeCount(all_dependencies) < SearchMaxEdges
            /\ bazel_dep(module, d[1], d[2])
    \/ \E keep \in BOOLEAN : call_find_redundant_dependencies(keep)
    \/ search_step
    \/ return_true

\* The interpreter runs the call to its end: a step that can be taken is taken.
SpecSearch == Init /\ [][NextSearch]_vars /\ WF_vars(search_run)

(***************************************************************************)
(* The same search for every order in which the mapping all_dependencies   *)
(* may enumerate its keys (main puts the registry modules first, in the    *)
(* order of the directory listing, then the untracked ones; a caller of    *)
(* find_redundant_dependencies may pass any order).                        *)
(***************************************************************************)
\* Total number of declarations kept in the runs that vary the order.
OrderMaxEdges == 3

\* The declarations of those runs: edges between the modules, one of them stale.
OrderDeclarations ==
    { <<"roo_a", V100>>, <<"roo_b", V100>>, <<"roo_b", V200>>, <<"roo_c", V200>> }

\* The orders of the keys.
KeyOrders ==
    { <<"roo_a", "roo_b", "roo_c">>, <<"roo_a", "roo_c", "roo_b">>,
      <<"roo_b", "roo_a", "roo_c">>, <<"roo_b", "roo_c", "roo_a">>,
      <<"roo_c", "roo_a", "roo_b">>, <<"roo_c", "roo_b", "roo_a">> }

InitOrder ==
    /\ newest_versions = RegistryIndex
    /\ untracked_modules = UntrackedIndex
    /\ git_statuses = WorkspaceStatuses
    /\ all_dependencies = [m \in DOMAIN all_modules_of(RegistryIndex, UntrackedIndex) |-> <<>>]
    /\ pc = "scan"
    /\ show_outdated = FALSE
    /\ redundant_deps = {}
    /\ modules_with_outdated = {}
    /\ checked_dependencies = [m \in DOMAIN all_modules_of(RegistryIndex, UntrackedIndex) |-> <<>>]
    /\ dot_nodes = <<>>
    /\ dot_edges = <<>>
    /\ call_keep_outdated = FALSE
    /\ position = [k |-> 1, j |-> 1]
    /\ stack = <<>>
    /\ objects = <<>>
    /\ modules_dir = <<>>
    /\ scanned_modules = <<>>
    /\ manifest = <<>>
    /\ parsed_dependencies = <<>>
    /\ enumeration \in KeyOrders
    /\ ToolsIdle

NextOrder ==
    \/ \E module \in DOMAIN all_dependencies, d \in OrderDeclarations :
            /\ EdgeCount(all_dependencies) < OrderMaxEdges
            /\ bazel_dep(module, d[1], d[2])
    \/ \E keep \in BOOLEAN : call_find_redundant_dependencies(keep)
    \/ search_step
    \/ return_true
    \/ \E show \in BOOLEAN : generate_dot_file(show)

SpecOrder == InitOrder /\ [][NextOrder]_vars

(***************************************************************************)
(* The graph as a relation, for stating the claims.                        *)
(***************************************************************************)
\* The declared edges (source, target) whose target is a known module.
KnownEdges ==
    {<<s[1], all_dependencies[s[1]][s[2]].name>> :
        s \in {t \in Slots(all_dependencies) :
                  all_dependencies[t[1]][t[2]].name \in DOMAIN all_modules}}

\* A declaration of a known module is up to date when its version equals
\* the newest version of its target.
SameVersion(a, b) ==
    /\ a.major = b.major /\ a.minor = b.minor /\ a.patch = b.patch
    /\ a.prerelease = b.prerelease

UpToDate(dep) == SameVersion(dep.version, all_modules[dep.name])

\* The declared edges to known modules that are up to date.
FreshEdges ==
    {<<s[1], all_dependencies[s[1]][s[2]].name>> :
        s \in {t \in Slots(all_dependencies) :
                  /\ all_dependencies[t[1]][t[2]].name \in DOMAIN all_modules
                  /\ UpToDate(all_dependencies[t[1]][t[2]])}}

\* The declared edges to known modules that are stale.
StaleEdges ==
    {<<s[1], all_dependencies[s[1]][s[2]].name>> :
        s \in {t \in Slots(all_dependencies) :
                  /\ all_dependencies[t[1]][t[2]].name \in DOMAIN all_modules
                  /\ ~UpToDate(all_dependencies[t[1]][t[2]])}}

\* R ; S
Compose(R, S) == {<<p[1], q[2]>> : <<p, q>> \in {x \in R \X S : x[1][2] = x[2][1]}}

\* The pairs joined by a path of one or more edges of R.
RECURSIVE Closure(_)
Closure(R) ==
    LET R2 == R \cup Compose(R, R) IN IF R2 = R THEN R ELSE Closure(R2)

\* R has a cycle (a self-loop included).
Cyclic(R) == \E p \in Closure(R) : p[1] = p[2]

Done == pc = "done"

(***************************************************************************)
(* C1: in collapse mode (keep_outdated = false) the pair (A, B) is in the  *)
(* result of find_redundant_dependencies if and only if A declares an edge *)
(* to a known module B and B is reachable from A by one or more edges      *)
(* between known modules once every direct A->B edge is removed; the       *)
(* versions play no role.  Cyclic graphs included.                         *)
(***************************************************************************)
C1_CollapseRedundantIffOtherPath ==
    (Done /\ ~show_outdated) =>
        redundant_deps =
            {e \in KnownEdges : e \in Closure(KnownEdges \ {e})}

\* A cyclic graph with a stale edge in which some, but not all, edges are redundant.
C1_Witness ==
    /\ Done /\ ~show_outdated
    /\ Cyclic(KnownEdges)
    /\ StaleEdges # {}
    /\ redundant_deps # {}
    /\ redundant_deps # KnownEdges

(***************************************************************************)
(* C2 as claimed: in preserve-stale mode (keep_outdated = true) the pair   *)
(* (A, B) is in the result if and only if A declares an up-to-date edge to *)
(* a known module B and there is a path from A to B that does not start    *)
(* with a direct A->B edge and on which every edge is up to date.  The     *)
(* path is a sequence of edges: it may come back to A and take A->B then.  *)
(***************************************************************************)
C2_Claimed_PathNotStartingWithDirectEdge ==
    (Done /\ show_outdated) =>
        redundant_deps =
            {e \in FreshEdges :
                \E f \in FreshEdges :
                    /\ f[1] = e[1]
                    /\ f[2] # e[2]
                    /\ <<f[2], e[2]>> \in Closure(FreshEdges)}

(***************************************************************************)
(* C2 amended: in preserve-stale mode the pair (A, B) is in the result if  *)
(* and only if A declares an up-to-date edge to a known module B and there *)
(* is a path from A to B that uses no direct A->B edge at all and on which *)
(* every edge is up to date.                                               *)
(***************************************************************************)
C2_PreserveRedundantIffFreshPathWithoutDirectEdge ==
    (Done /\ show_outdated) =>
        redundant_deps =
            {e \in FreshEdges : e \in Closure(FreshEdges \ {e})}

\* A pair made redundant in preserve-stale mode while a stale edge is declared as well.
C2_Witness ==
    /\ Done /\ show_outdated
    /\ redundant_deps # {}
    /\ redundant_deps # FreshEdges
    /\ StaleEdges # {}

(***************************************************************************)
(* C3 as claimed: in preserve-stale mode, for every declared edge A->B to  *)
(* a known module whose declared version differs from B's newest version,  *)
(* the pair (A, B) is not in the redundant set, also when A declares B     *)
(* more than once.                                                         *)
(***************************************************************************)
C3_Claimed_StalePairNeverRedundant ==
    (Done /\ show_outdated) => \A e \in StaleEdges : e \notin redundant_deps

(***************************************************************************)
(* C3 amended: in preserve-stale mode, for every declared stale edge A->B  *)
(* to a known module such that A declares no up-to-date edge to B as well, *)
(* the pair (A, B) is not in the redundant set.                            *)
(***************************************************************************)
C3_StaleOnlyPairNeverRedundant ==
    (Done /\ show_outdated) =>
        \A e \in StaleEdges \ FreshEdges : e \notin redundant_deps

\* A stale edge with an alternative path of up-to-date edges that is not marked.
C3_Witness ==
    /\ Done /\ show_outdated
    /\ \E e \in StaleEdges \ FreshEdges :
            /\ e \in Closure(FreshEdges \ {e})
            /\ e \notin redundant_deps

\* The declaration at slot s = (module, position) has an edge statement in the document.
Written(s) ==
    \E k \in 1..Len(dot_edges) :
        /\ dot_edges[k].source = s[1]
        /\ dot_edges[k].index = s[2]
        /\ dot_edges[k].target = all_dependencies[s[1]][s[2]].name

\* The slots of the declarations whose target is a known module.
KnownSlots ==
    {s \in Slots(all_dependencies) : all_dependencies[s[1]][s[2]].name \in DOMAIN all_modules}

SlotPair(s) == <<s[1], all_dependencies[s[1]][s[2]].name>>

SlotStale(s) == ~UpToDate(all_dependencies[s[1]][s[2]])

(***************************************************************************)
(* C4: in preserve-stale mode (show_outdated = true) generate_dot_file     *)
(* writes an edge statement for every declared edge to a known module      *)
(* whose declared version differs from the target's newest version,        *)
(* whatever the redundant set contains.                                    *)
(***************************************************************************)
C4_StaleEdgeAlwaysWritten ==
    (Done /\ show_outdated) =>
        \A s \in KnownSlots : SlotStale(s) => Written(s)

\* A stale edge is written although its pair is in the redundant set.
C4_Witness ==
    /\ Done /\ show_outdated
    /\ \E s \in KnownSlots :
            SlotStale(s) /\ SlotPair(s) \in redundant_deps /\ Written(s)

(***************************************************************************)
(* C5 as claimed: in collapse mode, for every graph (cyclic ones too) and  *)
(* every pair X, Y: if Y is reachable from X in the full graph, it still   *)
(* is after all edges of the redundant set are removed at once.            *)
(***************************************************************************)
C5_Claimed_ElisionKeepsReachability ==
    (Done /\ ~show_outdated) =>
        Closure(KnownEdges) \subseteq Closure(KnownEdges \ redundant_deps)

(***************************************************************************)
(* C5 amended: in collapse mode, on an acyclic graph reachability is kept  *)
(* when all edges of the redundant set are removed at once; on any graph   *)
(* it is kept when the edges of one redundant pair are removed.            *)
(***************************************************************************)
C5_ElisionKeepsReachabilityIfAcyclic ==
    (Done /\ ~show_outdated) =>
        /\ ~Cyclic(KnownEdges) =>
                Closure(KnownEdges) \subseteq Closure(KnownEdges \ redundant_deps)
        /\ \A e \in redundant_deps :
                Closure(KnownEdges) \subseteq Closure(KnownEdges \ {e})

\* An acyclic graph of three or more edges from which a redundant pair is removed.
C5_Witness ==
    /\ Done /\ ~show_outdated
    /\ ~Cyclic(KnownEdges)
    /\ Cardinality(redundant_deps) >= 1
    /\ Cardinality(KnownEdges) >= 3

\* The (source, target) pairs of the edge statements of the document.
WrittenPairs == {<<dot_edges[k].source, dot_edges[k].target>> : k \in 1..Len(dot_edges)}

(***************************************************************************)
(* C6: on an acyclic graph, in both modes, the written edges have the same *)
(* transitive closure as all the edges between known modules, and in       *)
(* collapse mode no written edge A->B has another path from A to B; for    *)
(* A->B, B->C, A->C exactly A->B and B->C are written.                     *)
(***************************************************************************)
C6_AcyclicTransitiveReduction ==
    (Done /\ ~Cyclic(KnownEdges)) =>
        /\ Closure(WrittenPairs) = Closure(KnownEdges)
        /\ ~show_outdated =>
                \A w \in WrittenPairs : w \notin Closure(KnownEdges \ {w})

\* The triangle roo_a->roo_b, roo_b->roo_c, roo_a->roo_c rendered with two edges.
C6_Witness ==
    /\ Done /\ ~show_outdated
    /\ KnownEdges = {<<"roo_a", "roo_b">>, <<"roo_b", "roo_c">>, <<"roo_a", "roo_c">>}
    /\ Len(dot_edges) = 2
    /\ WrittenPairs = {<<"roo_a", "roo_b">>, <<"roo_b", "roo_c">>}

\* The run followed step by step ends with the set that the recursive
\* definition of find_redundant_dependencies gives.
SearchAgreesWithDefinition ==
    pc = "finished" =>
        redundant_deps =
            find_redundant_dependencies(all_dependencies, all_modules, call_keep_outdated)

(***************************************************************************)
(* C7: find_redundant_dependencies terminates on every finite graph in     *)
(* both modes, with cycles, self-loops and duplicate edges: once called it *)
(* finishes, so every has_path_through_deps call returns, because a module *)
(* already on the current path ends that branch (no module is on the path  *)
(* twice).                                                                 *)
(***************************************************************************)
C7_SearchTerminates ==
    /\ [](\A a, b \in 1..Len(stack) : a # b => stack[a].start # stack[b].start)
    /\ (pc \in {"search", "return_true"}) ~> (pc = "finished")

\* A finished run over a graph with a self-loop and a two-module cycle.
C7_Witness ==
    /\ pc = "finished"
    /\ \E m \in DOMAIN all_dependencies :
            /\ <<m, m>> \in KnownEdges
            /\ \E n \in DOMAIN all_dependencies \ {m} :
                    <<m, n>> \in KnownEdges /\ <<n, m>> \in KnownEdges

(***************************************************************************)
(* C8: an edge whose target is not a known module is never marked          *)
(* redundant and never followed by the path search: in both modes no pair  *)
(* (A, B) with B outside the module index is in the redundant set, no      *)
(* search is made for such a target, and no module outside the index is on *)
(* the path of a search, so none is on a path found.                       *)
(***************************************************************************)
C8_ExternalNeverRedundantNorFollowed ==
    /\ \A p \in redundant_deps : p[2] \in DOMAIN all_modules
    /\ pc \in {"search", "return_true"} =>
            current_checked.dep.name \in DOMAIN all_modules
    /\ \A f \in 1..Len(stack) : stack[f].start \in DOMAIN all_modules

\* A search two calls deep has passed over a dependency outside the index.
C8_Witness ==
    /\ pc = "search"
    /\ Len(stack) = 2
    /\ stack[2].i > 1
    /\ all_dependencies[stack[2].start][stack[2].i - 1].name \notin DOMAIN all_modules

(***************************************************************************)
(* C9: check_dependency_versions reports an edge as not latest if and only *)
(* if its target is in the module index and the declared version is not    *)
(* equal to that module's newest version; an edge to a name absent from    *)
(* the index is reported as latest.                                        *)
(***************************************************************************)
C9_StaleIffKnownAndNotNewest ==
    Done =>
        \A m \in DOMAIN all_dependencies :
            /\ Len(checked_dependencies[m]) = Len(all_dependencies[m])
            /\ \A i \in 1..Len(all_dependencies[m]) :
                  LET dep == all_dependencies[m][i]
                  IN  /\ checked_dependencies[m][i].dep = dep
                      /\ ~checked_dependencies[m][i].is_latest <=>
                            /\ dep.name \in DOMAIN all_modules
                            /\ ~SameVersion(dep.version, all_modules[dep.name])

\* One run reports a stale edge, an up-to-date edge whose text differs from
\* the newest version's text, and an edge to a name outside the index.
C9_Witness ==
    /\ Done
    /\ \E m \in DOMAIN checked_dependencies :
        /\ \E i \in 1..Len(checked_dependencies[m]) : ~checked_dependencies[m][i].is_latest
        /\ \E i \in 1..Len(checked_dependencies[m]) :
                /\ checked_dependencies[m][i].dep.name \in DOMAIN all_modules
                /\ checked_dependencies[m][i].is_latest
                /\ checked_dependencies[m][i].dep.version.original
                        # all_modules[checked_dependencies[m][i].dep.name].original
        /\ \E i \in 1..Len(checked_dependencies[m]) :
                /\ checked_dependencies[m][i].dep.name \notin DOMAIN all_modules
                /\ checked_dependencies[m][i].is_latest

(***************************************************************************)
(* C10: generate_dot_file writes an edge statement for a declared edge to  *)
(* a known module if and only if, in preserve-stale mode, its pair is not  *)
(* in the redundant set or the edge is stale, and in collapse mode, its    *)
(* pair is not in the redundant set.                                       *)
(***************************************************************************)
C10_EdgeWrittenIffRule ==
    Done =>
        \A s \in KnownSlots :
            Written(s) <=>
                IF show_outdated
                THEN SlotPair(s) \notin redundant_deps \/ SlotStale(s)
                ELSE SlotPair(s) \notin redundant_deps

\* Collapse mode drops a stale edge whose pair is redundant and writes another edge.
C10_Witness ==
    /\ Done /\ ~show_outdated
    /\ \E s \in KnownSlots :
            SlotStale(s) /\ SlotPair(s) \in redundant_deps /\ ~Written(s)
    /\ \E s \in KnownSlots : Written(s)

(***************************************************************************)
(* The Version objects of a run, for stating the claims about the class.   *)
(***************************************************************************)
\* The Version objects constructed directly.
Versions ==
    {objects[i].object : i \in {k \in 1..Len(objects) :
                                    /\ objects[k].class = "Version"
                                    /\ objects[k].raised = ""}}

\* (major, minor, patch) as one number; the fields of the model stay below 100.
Numeric(v) == v.major * 10000 + v.minor * 100 + v.patch

\* The text has the form digits "." digits "." digits, then nothing or "-"
\* and a tag of one or more characters without a line break.
WellFormed(s) ==
    \E p, q, e \in 1..Len(s) :
        /\ 1 < p /\ p + 1 < q /\ q < e
        /\ s[p] = "." /\ s[q] = "."
        /\ \A k \in 1..(p - 1) : s[k] \in Digits
        /\ \A k \in (p + 1)..(q - 1) : s[k] \in Digits
        /\ \A k \in (q + 1)..e : s[k] \in Digits
        /\ \/ e = Len(s)
           \/ /\ e + 2 <= Len(s)
              /\ s[e + 1] = "-"
              /\ \A k \in (e + 2)..Len(s) : s[k] # "\n"

(***************************************************************************)
(* C13: Version comparison is a strict total order consistent with         *)
(* equality: for all versions a, b, c exactly one of a < b, a == b, b < a  *)
(* holds and a < b, b < c give a < c; (major, minor, patch) decides first, *)
(* as integers, then a version without a tag is greater than one with a    *)
(* tag, then the tags compare as strings; a release and its identically    *)
(* numbered prerelease are unequal.                                        *)
(***************************************************************************)
C13_VersionStrictTotalOrder ==
    /\ \A a, b \in Versions :
          /\ (IF VersionLt(a, b) THEN 1 ELSE 0) + (IF VersionEq(a, b) THEN 1 ELSE 0)
               + (IF VersionLt(b, a) THEN 1 ELSE 0) = 1
          /\ Numeric(a) < Numeric(b) => VersionLt(a, b)
          /\ (Numeric(a) = Numeric(b) /\ a.prerelease # NoPrerelease
                /\ b.prerelease = NoPrerelease) => (VersionLt(a, b) /\ ~VersionEq(a, b))
          /\ (Numeric(a) = Numeric(b) /\ a.prerelease # NoPrerelease
                /\ b.prerelease # NoPrerelease) =>
                    (VersionLt(a, b) <=> str_lt(a.prerelease, b.prerelease))
    /\ \A a, b, c \in Versions :
          (VersionLt(a, b) /\ VersionLt(b, c)) => VersionLt(a, c)

\* Three versions in a chain: two prereleases of 1.0.0 below the release
\* 1.0.0, and 1.9.0 below 1.10.0 in another run.
C13_Witness ==
    /\ Len(objects) = 3
    /\ \A i \in 1..3 : objects[i].class = "Version" /\ objects[i].raised = ""
    /\ VersionLt(objects[1].object, objects[2].object)
    /\ VersionLt(objects[2].object, objects[3].object)
    /\ objects[1].object.prerelease # NoPrerelease
    /\ objects[2].object.prerelease # NoPrerelease
    /\ objects[3].object.prerelease = NoPrerelease
    /\ Numeric(objects[1].object) = Numeric(objects[3].object)

(***************************************************************************)
(* C14: for every valid version text s, str(Version(s)) is s itself, also  *)
(* for the version of Dependency(name, s).                                 *)
(***************************************************************************)
C14_StrIsOriginalText ==
    \A i \in 1..Len(objects) :
        objects[i].raised = "" =>
            IF objects[i].class = "Version"
            THEN VersionStr(objects[i].object) = objects[i].text
            ELSE VersionStr(objects[i].object.version) = objects[i].text

\* A version whose fields would print differently (02.0.0), one with a
\* line break at its end, and one inside a Dependency.
C14_Witness ==
    /\ \E i \in 1..Len(objects) :
          /\ objects[i].class = "Version" /\ objects[i].raised = ""
          /\ objects[i].text = V0200 /\ objects[i].object.major = 2
    /\ \E i \in 1..Len(objects) :
          /\ objects[i].class = "Version" /\ objects[i].raised = ""
          /\ objects[i].text[Len(objects[i].text)] = "\n"
    /\ \E i \in 1..Len(objects) :
          /\ objects[i].class = "Dependency" /\ objects[i].raised = ""

(***************************************************************************)
(* C15 as claimed: constructing a Version from a text that is not of the   *)
(* form digits.digits.digits with an optional "-tag" raises ValueError and *)
(* gives no Version; construction succeeds for every text of that form.    *)
(***************************************************************************)
C15_Claimed_InvalidTextRaises ==
    \A i \in 1..Len(objects) :
        /\ ~WellFormed(objects[i].text) =>
                (objects[i].raised = "ValueError" /\ objects[i].object = NoObject)
        /\ WellFormed(objects[i].text) => objects[i].raised = ""

(***************************************************************************)
(* The document as sets, for stating the claims about nodes and edges.     *)
(***************************************************************************)
\* The modules that declare at least one stale edge to a known module.
StaleSources == {e[1] : e \in StaleEdges}

\* The names that have a node statement.
NodeNames == {dot_nodes[k].name : k \in 1..Len(dot_nodes)}

\* The slots of the declarations whose target is no known module.
ExternalSlots == Slots(all_dependencies) \ KnownSlots

(***************************************************************************)
(* C11: find_modules_with_outdated_deps returns exactly the modules that   *)
(* declare at least one stale edge to a known module, whether or not that  *)
(* edge is in the redundant set and dropped from the document.             *)
(***************************************************************************)
C11_OutdatedModulesAreStaleSources ==
    /\ find_modules_with_outdated_deps(all_dependencies, all_modules) = StaleSources
    /\ (Done /\ ~show_outdated) => modules_with_outdated = StaleSources

\* A module in the set whose stale edges are all redundant and unwritten,
\* declared after an up-to-date edge.
C11_Witness ==
    /\ Done /\ ~show_outdated
    /\ \E m \in modules_with_outdated :
          /\ <<m, 1>> \in KnownSlots
          /\ ~SlotStale(<<m, 1>>)
          /\ \A s \in KnownSlots :
                (s[1] = m /\ SlotStale(s)) =>
                    (SlotPair(s) \in redundant_deps /\ ~Written(s))

(***************************************************************************)
(* C12: a node has a red outline if and only if the document was written   *)
(* in collapse mode (show_outdated = false) and the module declares at     *)
(* least one stale edge to a known module; every other node, and every     *)
(* node in preserve-stale mode, has the black outline.                     *)
(***************************************************************************)
C12_RedOutlineIffCollapseAndStale ==
    Done =>
        \A k \in 1..Len(dot_nodes) :
            dot_nodes[k].color =
                IF ~show_outdated /\ dot_nodes[k].name \in StaleSources
                THEN "red" ELSE "black"

\* A collapse-mode document with a red node and a black node.
C12_Witness ==
    /\ Done /\ ~show_outdated
    /\ \E k \in 1..Len(dot_nodes) : dot_nodes[k].color = "red"
    /\ \E k \in 1..Len(dot_nodes) : dot_nodes[k].color = "black"

(***************************************************************************)
(* C17 as claimed: the names with a node statement are exactly the domain  *)
(* of newest_versions, the registry index.                                 *)
(***************************************************************************)
C17_Claimed_NodesAreRegistryModules ==
    Done => NodeNames = DOMAIN newest_versions

(***************************************************************************)
(* C17 amended: the names with a node statement are exactly the modules of *)
(* the registry index together with the untracked modules, one statement   *)
(* for each.                                                               *)
(***************************************************************************)
C17_NodesAreRegistryAndUntrackedModules ==
    Done =>
        /\ NodeNames = (DOMAIN newest_versions) \cup (DOMAIN untracked_modules)
        /\ Len(dot_nodes) = Cardinality(NodeNames)

\* A document with the node of an untracked module while names outside both
\* indexes are declared as dependencies.
C17_Witness ==
    /\ Done
    /\ \E k \in 1..Len(dot_nodes) :
          /\ dot_nodes[k].name \in DOMAIN untracked_modules
          /\ dot_nodes[k].name \notin DOMAIN newest_versions
    /\ ExternalSlots # {}

(***************************************************************************)
(* C18: every edge statement has a source and a target that are nodes of   *)
(* the same document; a declaration whose target is not in the module      *)
(* index has no edge statement, is reported as latest and does not put its *)
(* module into the set of modules with outdated dependencies.              *)
(***************************************************************************)
C18_EdgesJoinNodesExternalExcluded ==
    Done =>
        /\ \A k \in 1..Len(dot_edges) :
              /\ dot_edges[k].source \in NodeNames
              /\ dot_edges[k].target \in NodeNames
        /\ \A s \in ExternalSlots :
              /\ \A k \in 1..Len(dot_edges) :
                    ~(dot_edges[k].source = s[1] /\ dot_edges[k].index = s[2])
              /\ checked_dependencies[s[1]][s[2]].is_latest
              /\ (\A t \in KnownSlots : t[1] = s[1] => ~SlotStale(t)) =>
                    s[1] \notin modules_with_outdated

\* A collapse-mode document of a module that declares an external
\* dependency and a written edge to a known module.
C18_Witness ==
    /\ Done /\ ~show_outdated
    /\ \E s \in ExternalSlots : \E t \in KnownSlots :
          /\ s[1] = t[1]
          /\ Written(t)
          /\ s[1] \notin modules_with_outdated

(***************************************************************************)
(* The directories on disk, for stating the claims about the scan.         *)
(***************************************************************************)
Indexed == pc = "indexed"

\* The directories the scan takes as modules.
ModuleDirs == {d \in DOMAIN modules_dir : starts_with_roo(d) /\ ~should_ignore_module(d)}

\* The names of the version directories of d that Version(...) accepts.
ValidNames(d) ==
    {modules_dir[d][i].name : i \in {k \in 1..Len(modules_dir[d]) :
                                        /\ modules_dir[d][k].is_dir
                                        /\ ValidVersion(modules_dir[d][k].name)}}

\* The names of all entries of d.
EntryNames(d) == {modules_dir[d][i].name : i \in 1..Len(modules_dir[d])}

(***************************************************************************)
(* C16: a module with at least one valid version is mapped by              *)
(* find_newest_versions to one of its versions that is not less than any   *)
(* other of them ({1.0.0, 1.2.0, 1.1.5} gives 1.2.0); a module without a   *)
(* valid version is not in the index.                                      *)
(***************************************************************************)
C16_NewestIsMaximalMember ==
    Indexed =>
        /\ DOMAIN newest_versions = {d \in ModuleDirs : ValidNames(d) # {}}
        /\ \A d \in DOMAIN newest_versions :
              /\ VersionStr(newest_versions[d]) \in ValidNames(d)
              /\ newest_versions[d] = Version(VersionStr(newest_versions[d]))
              /\ \A n \in ValidNames(d) : ~VersionLt(newest_versions[d], Version(n))
              /\ EntryNames(d) = {V100, V120, V115} =>
                    VersionStr(newest_versions[d]) = V120

\* The module of the example with 1.2.0 in the middle, beside a module
\* whose only version directory has a name that is no version.
C16_Witness ==
    /\ Indexed
    /\ \E d \in ModuleDirs :
          /\ Len(modules_dir[d]) = 3
          /\ modules_dir[d][1].name = V100
          /\ modules_dir[d][2].name = V120
          /\ modules_dir[d][3].name = V115
    /\ \E d \in ModuleDirs : modules_dir[d] # <<>> /\ d \notin DOMAIN newest_versions

(***************************************************************************)
(* C19: an invalid version never aborts a scan.  get_modules_and_versions  *)
(* skips exactly the version names that fail to parse and keeps every      *)
(* valid version of every module; parse_module_bazel skips exactly the     *)
(* declarations with an invalid version (and the names of ignored_deps)    *)
(* and returns the others in declaration order.                            *)
(***************************************************************************)
C19_InvalidVersionsSkippedOnly ==
    Indexed =>
        /\ DOMAIN scanned_modules = {d \in ModuleDirs : ValidNames(d) # {}}
        /\ \A d \in DOMAIN scanned_modules :
              /\ {VersionStr(scanned_modules[d][i]) : i \in 1..Len(scanned_modules[d])}
                    = ValidNames(d)
              /\ Len(scanned_modules[d]) = Cardinality(ValidNames(d))
        /\ LET kept == SelectSeq(manifest,
                                 LAMBDA d : d[1] \notin ignored_deps /\ ValidVersion(d[2]))
           IN  /\ Len(parsed_dependencies) = Len(kept)
               /\ \A i \in 1..Len(kept) :
                     /\ parsed_dependencies[i].name = kept[i][1]
                     /\ VersionStr(parsed_dependencies[i].version) = kept[i][2]

\* A module directory with a bad name before a valid version, and a
\* manifest with a bad declaration before a valid one.
C19_Witness ==
    /\ Indexed
    /\ \E d \in DOMAIN scanned_modules :
          /\ Len(modules_dir[d]) = 2
          /\ modules_dir[d][1].is_dir /\ ~ValidVersion(modules_dir[d][1].name)
          /\ Len(scanned_modules[d]) = 1
    /\ Len(manifest) = 2
    /\ ~ValidVersion(manifest[1][2])
    /\ Len(parsed_dependencies) = 1

(***************************************************************************)
(* C20: the output is the same for every order in which the input          *)
(* mappings enumerate the modules: the redundant set that the search       *)
(* leaves is the one the graph alone determines, node statements are in    *)
(* ascending order of module name, and edge statements in ascending order  *)
(* of source name with the edges of one source in declaration order.       *)
(***************************************************************************)
\* The place of a name in the ascending order of names.
NameRank(n) == CHOOSE i \in 1..Len(SortedNames) : SortedNames[i] = n

C20_OutputIndependentOfEnumeration ==
    /\ pc = "finished" =>
          redundant_deps =
              find_redundant_dependencies(all_dependencies, all_modules, call_keep_outdated)
    /\ Done =>
          /\ \A k, l \in 1..Len(dot_nodes) :
                k < l => NameRank(dot_nodes[k].name) < NameRank(dot_nodes[l].name)
          /\ \A k, l \in 1..Len(dot_edges) :
                k < l =>
                    \/ NameRank(dot_edges[k].source) < NameRank(dot_edges[l].source)
                    \/ /\ dot_edges[k].source = dot_edges[l].source
                       /\ dot_edges[k].index < dot_edges[l].index
          /\ redundant_deps =
                find_redundant_dependencies(all_dependencies, all_modules, show_outdated)

\* A search that ran over the keys in descending order and found a
\* redundant pair and a pair that is not.
C20_Witness ==
    /\ pc = "finished"
    /\ enumeration = <<"roo_c", "roo_b", "roo_a">>
    /\ redundant_deps # {}
    /\ redundant_deps # KnownEdges

(***************************************************************************)
(* Duplicate declarations and the two modes side by side.                  *)
(***************************************************************************)
\* The graph with the declaration at slot s declared once more, at the end
\* of the same manifest.
WithTwin(deps, s) == [deps EXCEPT ![s[1]] = Append(@, @[s[2]])]

\* The slots whose declaration occurs again, name and version, later in the
\* same manifest.
TwinSlots ==
    {s \in Slots(all_dependencies) :
        \E j \in (s[2] + 1)..Len(all_dependencies[s[1]]) :
            all_dependencies[s[1]][j] = all_dependencies[s[1]][s[2]]}

\* The graph without the declaration at slot s.
WithoutSlot(deps, s) ==
    [deps EXCEPT ![s[1]] = SubSeq(@, 1, s[2] - 1) \o SubSeq(@, s[2] + 1, Len(@))]

(***************************************************************************)
(* C21: a manifest that declares the same target twice yields two edges,   *)
(* and the reduction tolerates them: declaring an edge once more (same     *)
(* source, target and version) leaves the redundant set as it is, in both  *)
(* modes, so a duplicate never makes its twin redundant, and a pair whose  *)
(* two declarations are both redundant is in the set as it is for one.     *)
(***************************************************************************)
C21_DuplicateLeavesRedundantSetUnchanged ==
    Done =>
        /\ \A s \in Slots(all_dependencies) :
              find_redundant_dependencies(WithTwin(all_dependencies, s), all_modules,
                                          show_outdated)
                = redundant_deps
        /\ \A s \in TwinSlots :
              find_redundant_dependencies(WithoutSlot(all_dependencies, s), all_modules,
                                          show_outdated)
                = redundant_deps

\* A manifest that declares a target twice, the pair redundant through
\* another path whose edges are not.
C21_Witness ==
    /\ Done
    /\ \E s \in TwinSlots : SlotPair(s) \in KnownEdges /\ SlotPair(s) \in redundant_deps
    /\ redundant_deps # KnownEdges

(***************************************************************************)
(* C29: for every graph and module index the redundant set of              *)
(* preserve-stale mode is a subset of the redundant set of collapse mode,  *)
(* and both sets hold only (source, target) pairs that are declared edges  *)
(* between known modules.                                                  *)
(***************************************************************************)
C29_PreserveSubsetOfCollapse ==
    Done =>
        /\ redundant_deps \subseteq KnownEdges
        /\ \A p \in redundant_deps : p[1] \in DOMAIN all_modules /\ p[2] \in DOMAIN all_modules
        /\ show_outdated =>
              redundant_deps \subseteq
                  find_redundant_dependencies(all_dependencies, all_modules, FALSE)
        /\ ~show_outdated =>
              find_redundant_dependencies(all_dependencies, all_modules, TRUE)
                  \subseteq redundant_deps

\* A graph with a stale edge on which the preserve-stale set is not empty
\* and smaller than the collapse set.
C29_Witness ==
    /\ Done /\ show_outdated
    /\ redundant_deps # {}
    /\ redundant_deps # find_redundant_dependencies(all_dependencies, all_modules, FALSE)
    /\ StaleEdges # {}

(***************************************************************************)
(* The path search as a loop over an explicit stack, with one visited set  *)
(* that holds the modules on the current path: a module is added when it   *)
(* is entered and taken out again when the search backs out of it.         *)
(***************************************************************************)
\* The loop from the state (path, visited) on; path is the stack of
\* [node, i]: the module and the position of its next dependency.
RECURSIVE IterativeLoop(_, _, _, _, _, _, _)
IterativeLoop(deps, nv, source, target, only_updated, path, visited) ==
    IF path = <<>>
    THEN FALSE
    ELSE LET top  == path[Len(path)]
             ds   == IF top.node \in DOMAIN deps THEN deps[top.node] ELSE <<>>
             next == [path EXCEPT ![Len(path)].i = @ + 1]
         IN  IF top.i > Len(ds)
             THEN IterativeLoop(deps, nv, source, target, only_updated,
                                SubSeq(path, 1, Len(path) - 1), visited \ {top.node})
             ELSE LET name == ds[top.i].name
                  IN  IF name \notin DOMAIN nv
                      THEN IterativeLoop(deps, nv, source, target, only_updated, next, visited)
                      ELSE IF top.node = source /\ name = target
                      THEN IterativeLoop(deps, nv, source, target, only_updated, next, visited)
                      ELSE IF only_updated /\ ~SameVersion(ds[top.i].version, nv[name])
                      THEN IterativeLoop(deps, nv, source, target, only_updated, next, visited)
                      ELSE IF name = target
                      THEN TRUE
                      ELSE IF name \in visited
                      THEN IterativeLoop(deps, nv, source, target, only_updated, next, visited)
                      ELSE IterativeLoop(deps, nv, source, target, only_updated,
                                         Append(next, [node |-> name, i |-> 1]),
                                         visited \cup {name})

IterativeSearch(deps, nv, source, target, only_updated) ==
    IterativeLoop(deps, nv, source, target, only_updated,
                  <<[node |-> source, i |-> 1]>>, {source})

(***************************************************************************)
(* C28: the recursive search with a copy of the visited set for every      *)
(* recursive call gives, for every graph, start edge and mode, the answer  *)
(* of the search over an explicit stack with one visited set restored on   *)
(* backtrack; the visited set of a call holds the modules on its own path  *)
(* only, so a module visited in a branch that has returned does not block  *)
(* a sibling branch.                                                       *)
(***************************************************************************)
C28_RecursiveEqualsIterative ==
    /\ \A f \in 1..Len(stack) :
          stack[f].visited = {stack[g].start : g \in 1..f}
    /\ pc = "finished" =>
          /\ \A s \in KnownSlots : \A only_updated \in BOOLEAN :
                has_path_through_deps(all_dependencies, all_modules, s[1], SlotPair(s)[2],
                                      s[1], {}, only_updated)
                  = IterativeSearch(all_dependencies, all_modules, s[1], SlotPair(s)[2],
                                    only_updated)
          /\ redundant_deps =
                {SlotPair(s) : s \in {t \in KnownSlots :
                    /\ call_keep_outdated => ~SlotStale(t)
                    /\ IterativeSearch(all_dependencies, all_modules, t[1], SlotPair(t)[2],
                                       call_keep_outdated)}}

\* The search is in a module for the second time: it entered it from the
\* first of two declarations, came back, and entered it again from the second.
C28_Witness ==
    /\ pc = "search"
    /\ Len(stack) = 2
    /\ stack[1].i = 2
    /\ all_dependencies[stack[1].start][1] = all_dependencies[stack[1].start][2]
    /\ all_dependencies[stack[1].start][2].name = stack[2].start
    /\ stack[2].start # current_checked.dep.name

(***************************************************************************)
(* The companion runs start from a generator that has read nothing: no     *)
(* index, no manifest, no document.                                        *)
(***************************************************************************)
GraphIdle ==
    /\ newest_versions = <<>>
    /\ untracked_modules = <<>>
    /\ git_statuses = <<>>
    /\ all_dependencies = <<>>
    /\ pc = "scan"
    /\ show_outdated = FALSE
    /\ redundant_deps = {}
    /\ modules_with_outdated = {}
    /\ checked_dependencies = <<>>
    /\ dot_nodes = <<>>
    /\ dot_edges = <<>>
    /\ call_keep_outdated = FALSE
    /\ position = [k |-> 1, j |-> 1]
    /\ stack = <<>>
    /\ objects = <<>>
    /\ modules_dir = <<>>
    /\ scanned_modules = <<>>
    /\ manifest = <<>>
    /\ parsed_dependencies = <<>>
    /\ enumeration = <<>>

\* The variables of the document and of the runs of the library classes.
document_vars ==
    <<show_outdated, redundant_deps, modules_with_outdated, checked_dependencies,
      dot_nodes, dot_edges, call_keep_outdated, position, stack,
      objects, modules_dir, scanned_modules, manifest, parsed_dependencies, enumeration>>

\* The variables of the generator.
graph_vars ==
    <<newest_versions, untracked_modules, git_statuses, all_dependencies, pc, document_vars>>

\* Nothing has been read and no script runs.
InitTools == GraphIdle /\ ToolsIdle

(***************************************************************************)
(* check_git_status: the workspace of a module as GitPython reports it.    *)
(*   exists    module_dir and module_dir/.git exist                        *)
(*   repo      "ok", or "raises" when git.Repo(module_dir) raises          *)
(*   is_dirty  "yes" / "no", or "raises" when repo.is_dirty raises         *)
(*   branch    "detached" (repo.active_branch raises), "no_tracking"       *)
(*             (tracking_branch() is None), "level" / "ahead" (the number  *)
(*             of commits tracking..branch is 0 / more), "raises"          *)
(*             (iter_commits raises)                                       *)
(*   head      "ok", or "raises" when repo.head.commit raises              *)
(*   tags      raises when reading repo.tags or a tag's commit raises,     *)
(*             else list has the tags in the order of repo.tags, each with *)
(*             its name, the committed_date of its commit and whether that *)
(*             commit is HEAD's                                            *)
(***************************************************************************)
V090 == <<"0", ".", "9", ".", "0">>

\* The tags a workspace of the model may have: 0.9.0, older or younger than
\* 1.0.0, each at HEAD's commit or at another.
TagLists ==
    LET older == {<<>>} \cup {<<[name |-> V090, committed_date |-> d, at_head |-> h]>> :
                                  d \in {1, 3}, h \in BOOLEAN}
        newer == {<<>>} \cup {<<[name |-> V100, committed_date |-> 2, at_head |-> h]>> :
                                  h \in BOOLEAN}
    IN  {a \o b : a \in older, b \in newer}

Workspaces ==
    [exists   : BOOLEAN,
     repo     : {"ok", "raises"},
     is_dirty : {"yes", "no", "raises"},
     branch   : {"detached", "no_tracking", "level", "ahead", "raises"},
     head     : {"ok", "raises"},
     tags     : {[raises |-> TRUE, list |-> <<>>]}
                    \cup {[raises |-> FALSE, list |-> l] : l \in TagLists}]

\* tags[0] of sorted(repo.tags, key=committed_date, reverse=True): the
\* first tag of the list that no tag is younger than.
latest_tag(tags) ==
    tags[CHOOSE i \in 1..Len(tags) :
            /\ \A j \in 1..Len(tags) : tags[j].committed_date <= tags[i].committed_date
            /\ \A j \in 1..(i - 1) : tags[j].committed_date < tags[i].committed_date]

\* Check 2 of check_git_status: a tracking branch and commits ahead of it;
\* an exception is passed over.
ahead_of_remote(ws) == ws.branch = "ahead"

\* Variant of check_git_status that takes a failure to read the tags for a
\* clean workspace.
check_git_status_tags_failure_clean(module_version, ws) ==
    IF ~ws.exists THEN "CLEAN"
    ELSE IF ws.repo = "raises" THEN "CLEAN"
    ELSE IF ws.is_dirty = "raises" THEN "CLEAN"
    ELSE IF ws.is_dirty = "yes" THEN "DIRTY"
    ELSE IF ahead_of_remote(ws) THEN "DIRTY"
    ELSE IF ws.head = "raises" THEN "CLEAN"
    ELSE IF ws.tags.raises THEN "CLEAN"
    ELSE IF ws.tags.list = <<>> THEN "UPDATED"
    ELSE IF ~latest_tag(ws.tags.list).at_head THEN "UPDATED"
    ELSE IF latest_tag(ws.tags.list).name = module_version THEN "CLEAN"
    ELSE "UNPUBLISHED"

\* check_git_status(module_name, module_version, base_dir) on the workspace
\* ws of the module.
check_git_status(module_version, ws) ==
    IF ~ws.exists THEN "CLEAN"
    ELSE IF ws.repo = "raises" THEN "CLEAN"
    ELSE IF ws.is_dirty = "raises" THEN "CLEAN"
    ELSE IF ws.is_dirty = "yes" THEN "DIRTY"
    ELSE IF ahead_of_remote(ws) THEN "DIRTY"
    ELSE IF ws.head = "raises" THEN "CLEAN"
    ELSE IF ws.tags.raises THEN "UPDATED"
    ELSE IF ws.tags.list = <<>> THEN "UPDATED"
    ELSE IF ~latest_tag(ws.tags.list).at_head THEN "UPDATED"
    ELSE IF latest_tag(ws.tags.list).name = module_version THEN "CLEAN"
    ELSE "UNPUBLISHED"

\* main has built the indexes (one registry module at 1.0.0) and the
\* module has a workspace beside the registry.
build_indexes(ws) ==
    /\ pc = "scan"
    /\ newest_versions = <<>>
    /\ newest_versions' = [n \in {"roo_a"} |-> Version(V100)]
    /\ workspaces' = [n \in {"roo_a"} |-> ws]
    /\ UNCHANGED <<untracked_modules, git_statuses, all_dependencies, pc, document_vars>>
    /\ UNCHANGED <<module_bazel, library_json, environment, script_pc, commands,
                   error_messages, returned>>

\* get_all_git_statuses: check_git_status(module_name, str(version),
\* base_dir) for every registry module and every untracked module.
get_all_git_statuses ==
    /\ pc = "scan"
    /\ DOMAIN workspaces # {}
    /\ git_statuses' =
          [m \in DOMAIN all_modules |->
              check_git_status(VersionStr(all_modules[m]), workspaces[m])]
    /\ pc' = "statuses"
    /\ UNCHANGED <<newest_versions, untracked_modules, all_dependencies, document_vars>>
    /\ UNCHANGED tool_vars

NextGit ==
    \/ \E ws \in Workspaces : build_indexes(ws)
    \/ get_all_git_statuses

SpecGit == InitTools /\ [][NextGit]_vars

\* What the workspace shows, for stating the claim.
Missing(ws) == ~ws.exists

Dirty(ws) == ws.is_dirty = "yes"

Ahead(ws) == ws.branch = "ahead"

HasTags(ws) == ~ws.tags.raises /\ ws.tags.list # <<>>

\* The tag with the youngest commit.
LatestTag(ws) ==
    CHOOSE t \in {ws.tags.list[i] : i \in 1..Len(ws.tags.list)} :
        \A u \in {ws.tags.list[i] : i \in 1..Len(ws.tags.list)} :
            u.committed_date <= t.committed_date

\* An inspection the function makes fails: opening the repository, the test
\* for uncommitted changes, the comparison with the remote branch, the
\* reading of HEAD or of the tags.
InspectionFails(ws) ==
    \/ ws.repo = "raises"
    \/ ws.is_dirty = "raises"
    \/ ws.branch \in {"detached", "raises"}
    \/ ws.head = "raises"
    \/ ws.tags.raises

Statuses == {"CLEAN", "UPDATED", "DIRTY", "UNPUBLISHED"}

(***************************************************************************)
(* C22 as claimed: check_git_status returns one of CLEAN, UPDATED, DIRTY,  *)
(* UNPUBLISHED: CLEAN for a missing workspace and when an inspection       *)
(* fails; otherwise DIRTY if there are uncommitted changes or the branch   *)
(* is ahead of its remote; otherwise UPDATED if there is no tag or HEAD is *)
(* not the latest tag's commit; otherwise UNPUBLISHED if the latest tag's  *)
(* name differs from the module version; otherwise CLEAN.                  *)
(***************************************************************************)
C22_Claimed_AnyFailureYieldsClean ==
    pc = "statuses" =>
        \A m \in DOMAIN git_statuses :
            LET ws == workspaces[m]
                module_version == VersionStr(newest_versions[m])
            IN  /\ git_statuses[m] \in Statuses
                /\ (Missing(ws) \/ InspectionFails(ws)) =>
                        \/ git_statuses[m] = "CLEAN"
                        \/ /\ ws.exists /\ ws.repo = "ok"
                           /\ (Dirty(ws) \/ (ws.is_dirty = "no" /\ Ahead(ws)))
                           /\ git_statuses[m] = "DIRTY"
                /\ ~(Missing(ws) \/ InspectionFails(ws)) =>
                        git_statuses[m] =
                            IF Dirty(ws) \/ Ahead(ws) THEN "DIRTY"
                            ELSE IF ~HasTags(ws) \/ ~LatestTag(ws).at_head THEN "UPDATED"
                            ELSE IF LatestTag(ws).name # module_version THEN "UNPUBLISHED"
                            ELSE "CLEAN"

(***************************************************************************)
(* C22 amended: check_git_status returns one of CLEAN, UPDATED, DIRTY,     *)
(* UNPUBLISHED, by this precedence: CLEAN for a missing workspace or when  *)
(* the repository cannot be opened or tested for uncommitted changes;      *)
(* DIRTY if there are uncommitted changes or the branch is ahead of its    *)
(* remote, where a comparison with the remote that fails counts as not     *)
(* ahead; otherwise CLEAN if HEAD cannot be read; otherwise UPDATED if the *)
(* tags cannot be read, there is no tag or HEAD is not the latest tag's    *)
(* commit; otherwise UNPUBLISHED if the latest tag's name differs from the *)
(* module version; otherwise CLEAN.                                        *)
(***************************************************************************)
C22_StatusByPrecedence ==
    pc = "statuses" =>
        \A m \in DOMAIN git_statuses :
            LET ws == workspaces[m]
                module_version == VersionStr(newest_versions[m])
            IN  /\ git_statuses[m] \in Statuses
                /\ git_statuses[m] = "DIRTY" <=>
                        /\ ws.exists /\ ws.repo = "ok"
                        /\ Dirty(ws) \/ (ws.is_dirty = "no" /\ Ahead(ws))
                /\ git_statuses[m] = "UPDATED" <=>
                        /\ ws.exists /\ ws.repo = "ok" /\ ws.is_dirty = "no" /\ ~Ahead(ws)
                        /\ ws.head = "ok"
                        /\ ~HasTags(ws) \/ ~LatestTag(ws).at_head
                /\ git_statuses[m] = "UNPUBLISHED" <=>
                        /\ ws.exists /\ ws.repo = "ok" /\ ws.is_dirty = "no" /\ ~Ahead(ws)
                        /\ ws.head = "ok"
                        /\ HasTags(ws) /\ LatestTag(ws).at_head
                        /\ LatestTag(ws).name # module_version

\* A workspace on a detached HEAD whose latest tag, the younger of two, is
\* at HEAD and names another version.
C22_Witness ==
    /\ pc = "statuses"
    /\ \E m \in DOMAIN git_statuses :
          /\ workspaces[m].branch = "detached"
          /\ Len(workspaces[m].tags.list) = 2
          /\ workspaces[m].tags.list[1].committed_date
                > workspaces[m].tags.list[2].committed_date
          /\ git_statuses[m] = "UNPUBLISHED"

(***************************************************************************)
(* update_module_versions.py: the references to the modules' versions in   *)
(* MODULE.bazel and library.json are rewritten; --dry-run only reports.    *)
(* A MODULE.bazel is its bazel_dep declarations (name, version text) in    *)
(* file order; a library.json is the entries (key, constraint text) of its *)
(* "dependencies" object in file order, a key being owner/name (a file     *)
(* without the object behaves like one whose object is empty).             *)
(***************************************************************************)
\* Number of calls of the two update functions in one run.
MaxRuns == 2

\* get_module_versions: module name -> the version of its module(...) line.
module_versions == [n \in {"roo_a", "roo_b"} |-> V100]

\* The key "owner/name" of a library.json dependency ("name" has owner "").
LibraryKey(owner, name) == [owner |-> owner, name |-> name]

\* f">={version}"
AtLeast(version) == <<">", "=">> \o version

\* The MODULE.bazel files of the model: missing, or writable or read-only
\* with up to two declarations.
BazelContents ==
    LET Lines == {<<n, v>> : n \in {"roo_a", "glog"}, v \in {V090, V100}}
    IN  {<<>>} \cup {<<l>> : l \in Lines} \cup {<<l, k>> : l \in Lines, k \in Lines}

ModuleBazelFiles ==
    {NoFile} \cup {[exists |-> TRUE, writable |-> w, content |-> c] :
                      w \in BOOLEAN, c \in BazelContents}

\* The library.json files of the model: missing, or writable or read-only
\* with up to two dependencies (a JSON object holds a key once).
LibraryContents ==
    LET Entries == {<<LibraryKey(o, "roo_a"), c>> :
                        o \in {"dejwk", "other"}, c \in {AtLeast(V090), AtLeast(V100)}}
    IN  {<<>>} \cup {<<e>> : e \in Entries}
               \cup {p \in Entries \X Entries : p[1][1] # p[2][1]}

LibraryJsonFiles ==
    {NoFile} \cup {[exists |-> TRUE, writable |-> w, content |-> c] :
                      w \in BOOLEAN, c \in LibraryContents}

\* re.sub of the bazel_dep pattern of every module of module_versions: the
\* version text of each declaration of such a module is replaced.
re_sub(content, versions) ==
    [i \in 1..Len(content) |->
        IF content[i][1] \in DOMAIN versions
        THEN <<content[i][1], versions[content[i][1]]>>
        ELSE content[i]]

\* Variant of update_module_bazel that writes the file in a dry run too.
update_module_bazel_writes_in_dry_run(file, versions, dry_run) ==
    IF ~file.exists THEN [file |-> file, result |-> FALSE]
    ELSE LET content == re_sub(file.content, versions)
         IN  IF content # file.content
             THEN IF file.writable
                  THEN [file |-> [file EXCEPT !.content = content], result |-> TRUE]
                  ELSE [file |-> file, result |-> FALSE]
             ELSE [file |-> file, result |-> FALSE]

\* update_module_bazel: the file it leaves and the value it returns.
\* write_text of a read-only file raises, which the handler turns into False.
update_module_bazel(file, versions, dry_run) ==
    IF ~file.exists THEN [file |-> file, result |-> FALSE]
    ELSE LET content == re_sub(file.content, versions)
         IN  IF content # file.content
             THEN IF ~dry_run
                  THEN IF file.writable
                       THEN [file |-> [file EXCEPT !.content = content], result |-> TRUE]
                       ELSE [file |-> file, result |-> FALSE]
                  ELSE [file |-> file, result |-> TRUE]
             ELSE [file |-> file, result |-> FALSE]

\* The loop over module_versions of update_library_json: the dependencies
\* it leaves in data.
new_dependencies(dependencies, versions) ==
    [i \in 1..Len(dependencies) |->
        IF /\ dependencies[i][1].owner = "dejwk"
           /\ dependencies[i][1].name \in DOMAIN versions
           /\ dependencies[i][2] # AtLeast(versions[dependencies[i][1].name])
        THEN <<dependencies[i][1], AtLeast(versions[dependencies[i][1].name])>>
        ELSE dependencies[i]]

\* update_library_json: the file it leaves and the value it returns.
\* open(path, 'w') of a read-only file raises, which the handler turns
\* into False.
update_library_json(file, versions, dry_run) ==
    IF ~file.exists THEN [file |-> file, result |-> FALSE]
    ELSE LET dependencies == new_dependencies(file.content, versions)
             updated == dependencies # file.content
         IN  IF updated /\ ~dry_run
             THEN IF file.writable
                  THEN [file |-> [file EXCEPT !.content = dependencies], result |-> TRUE]
                  ELSE [file |-> file, result |-> FALSE]
             ELSE [file |-> file, result |-> updated]

\* find_roo_modules: the module directory the run works on, with its files.
find_roo_modules(mb, lj) ==
    /\ script_pc = "idle"
    /\ module_bazel' = mb
    /\ library_json' = lj
    /\ script_pc' = "update_all_modules"
    /\ UNCHANGED <<workspaces, environment, commands, error_messages, returned>>
    /\ UNCHANGED graph_vars

\* update_module_bazel(module_bazel_path, module_versions, dry_run) is
\* called; what it was called on, what it left and what it returned is kept.
call_update_module_bazel(dry_run) ==
    /\ script_pc = "update_all_modules"
    /\ Len(returned) < MaxRuns
    /\ LET r == update_module_bazel(module_bazel, module_versions, dry_run)
       IN  /\ module_bazel' = r.file
           /\ returned' = Append(returned,
                 [function |-> "update_module_bazel", dry_run |-> dry_run,
                  before |-> module_bazel, after |-> r.file, result |-> r.result])
    /\ UNCHANGED <<workspaces, library_json, environment, script_pc, commands,
                   error_messages>>
    /\ UNCHANGED graph_vars

\* update_library_json(library_json_path, module_versions, dry_run) is called.
call_update_library_json(dry_run) ==
    /\ script_pc = "update_all_modules"
    /\ Len(returned) < MaxRuns
    /\ LET r == update_library_json(library_json, module_versions, dry_run)
       IN  /\ library_json' = r.file
           /\ returned' = Append(returned,
                 [function |-> "update_library_json", dry_run |-> dry_run,
                  before |-> library_json, after |-> r.file, result |-> r.result])
    /\ UNCHANGED <<workspaces, module_bazel, environment, script_pc, commands,
                   error_messages>>
    /\ UNCHANGED graph_vars

NextUpdate ==
    \/ \E mb \in ModuleBazelFiles, lj \in LibraryJsonFiles : find_roo_modules(mb, lj)
    \/ \E dry_run \in BOOLEAN : call_update_module_bazel(dry_run)
    \/ \E dry_run \in BOOLEAN : call_update_library_json(dry_run)

SpecUpdate == InitTools /\ [][NextUpdate]_vars

\* Calls i and j were made by the same function on the same file, i as a
\* dry run and j as a real run.
DryAndReal(i, j) ==
    /\ returned[i].function = returned[j].function
    /\ returned[i].before = returned[j].before
    /\ returned[i].dry_run /\ ~returned[j].dry_run

(***************************************************************************)
(* C23 as claimed: a call of update_module_bazel or update_library_json    *)
(* with dry_run = true leaves the file's content unchanged and returns the *)
(* result that a real run on the same file returns.                        *)
(***************************************************************************)
C23_Claimed_DryRunSameResultAsRealRun ==
    \A i \in 1..Len(returned) :
        /\ returned[i].dry_run => returned[i].after = returned[i].before
        /\ \A j \in 1..Len(returned) :
              DryAndReal(i, j) => returned[i].result = returned[j].result

(***************************************************************************)
(* C23 amended: a call of update_module_bazel or update_library_json with  *)
(* dry_run = true leaves the file's content unchanged and returns the      *)
(* result that a real run on the same file returns if the file can be     *)
(* written; on a file that cannot be written the real run returns False    *)
(* and leaves it unchanged, whatever the dry run returned.                 *)
(***************************************************************************)
C23_DryRunSameResultUnlessWriteFails ==
    \A i \in 1..Len(returned) :
        /\ returned[i].dry_run => returned[i].after = returned[i].before
        /\ \A j \in 1..Len(returned) :
              DryAndReal(i, j) =>
                  IF returned[i].before.writable
                  THEN returned[i].result = returned[j].result
                  ELSE /\ ~returned[j].result
                       /\ returned[j].after = returned[j].before

\* A dry run reported an update of a library.json, left it alone, and the
\* real run that followed on the same file reported it too and rewrote
\* the file.
C23_Witness ==
    /\ Len(returned) = 2
    /\ DryAndReal(1, 2)
    /\ returned[1].function = "update_library_json"
    /\ returned[1].result /\ returned[2].result
    /\ returned[1].after = returned[1].before
    /\ returned[2].after # returned[2].before

(***************************************************************************)
(* sync.py: sync_repository followed command by command.  The environment  *)
(* says what the repository looks like and how each git command ends:      *)
(*   exists, clone_url, is_git  the directory, whether a clone URL was     *)
(*                          given, whether it holds .git                   *)
(*   clone, push            "ok" or "fails"                                *)
(*   pull                   "ok", "local_changes" (the message names       *)
(*                          unstaged or uncommitted changes) or "fails"    *)
(*   remote                 what has_remote_changes finds: "none" (False,  *)
(*                          "No remote changes"), "some" or "unknown" (any *)
(*                          of its failures)                               *)
(*   unpushed               what has_unpushed_commits finds: "some",       *)
(*                          "none", "detached", "no_upstream" or           *)
(*                          "could_not"                                    *)
(***************************************************************************)
SyncEnvironments ==
    [exists : BOOLEAN, clone_url : BOOLEAN, is_git : BOOLEAN,
     clone : {"ok", "fails"}, push : {"ok", "fails"},
     pull : {"ok", "local_changes", "fails"},
     remote : {"none", "some", "unknown"},
     unpushed : {"some", "none", "detached", "no_upstream", "could_not"}]

\* Variant of the pull handling that goes on to the push check after any
\* failed pull.
after_pull_always_push_check(pull) ==
    IF pull = "local_changes" THEN "has_remote_changes" ELSE "has_unpushed_commits"

\* Where sync_repository goes after git_pull_rebase: on to the push check,
\* to the look at the remote, or past the push with an error message.
after_pull(pull) ==
    IF pull = "ok" THEN "has_unpushed_commits"
    ELSE IF pull = "local_changes" THEN "has_remote_changes"
    ELSE "return"

\* main: sync_repository is called for a repository.
sync_main(env) ==
    /\ script_pc = "idle"
    /\ environment' = env
    /\ script_pc' = "sync_repository"
    /\ UNCHANGED <<workspaces, module_bazel, library_json, commands, error_messages,
                   returned>>
    /\ UNCHANGED graph_vars

\* The checks at the head of sync_repository: a missing directory is cloned
\* or reported, a directory without .git is reported; these return at once
\* with a list of their own.
check_repository ==
    /\ script_pc = "sync_repository"
    /\ LET cloning == ~environment.exists /\ environment.clone_url
           failure ==
               IF ~environment.exists /\ ~environment.clone_url THEN "Directory does not exist"
               ELSE IF cloning /\ environment.clone = "fails" THEN "Clone failed"
               ELSE IF ~environment.is_git THEN "Not a git repository"
               ELSE ""
       IN  /\ commands' = IF cloning THEN Append(commands, "git clone") ELSE commands
           /\ IF failure # ""
              THEN /\ returned' = <<[success |-> FALSE, error_messages |-> <<failure>>]>>
                   /\ script_pc' = "returned"
              ELSE /\ returned' = returned
                   /\ script_pc' = "git_pull_rebase"
    /\ UNCHANGED <<workspaces, module_bazel, library_json, environment, error_messages>>
    /\ UNCHANGED graph_vars

\* Step 1: pull_success, pull_msg = git_pull_rebase(repo_path).
git_pull_rebase ==
    /\ script_pc = "git_pull_rebase"
    /\ commands' = Append(commands, "git pull --rebase")
    /\ script_pc' = after_pull(environment.pull)
    /\ error_messages' =
          IF after_pull(environment.pull) = "return"
          THEN Append(error_messages, "Pull rebase failed")
          ELSE error_messages
    /\ UNCHANGED <<workspaces, module_bazel, library_json, environment, returned>>
    /\ UNCHANGED graph_vars

\* The pull failed on local changes: has_remote_changes(repo_path) fetches
\* and counts; without remote changes the pull counts as done.
has_remote_changes ==
    /\ script_pc = "has_remote_changes"
    /\ commands' = Append(commands, "git fetch")
    /\ IF environment.remote = "none"
       THEN /\ script_pc' = "has_unpushed_commits"
            /\ error_messages' = error_messages
       ELSE /\ script_pc' = "return"
            /\ error_messages' = Append(error_messages, "Pull rebase failed")
    /\ UNCHANGED <<workspaces, module_bazel, library_json, environment, returned>>
    /\ UNCHANGED graph_vars

\* Step 2 (if pull_success): has_unpushed, push_info = has_unpushed_commits(repo_path).
has_unpushed_commits ==
    /\ script_pc = "has_unpushed_commits"
    /\ script_pc' = IF environment.unpushed = "some" THEN "git_push" ELSE "return"
    /\ error_messages' =
          IF environment.unpushed = "no_upstream"
          THEN Append(error_messages, "No upstream branch configured")
          ELSE IF environment.unpushed = "could_not"
          THEN Append(error_messages, "Could not check unpushed commits")
          ELSE error_messages
    /\ UNCHANGED <<workspaces, module_bazel, library_json, environment, commands,
                   returned>>
    /\ UNCHANGED graph_vars

\* push_success, push_msg = git_push(repo_path).
git_push ==
    /\ script_pc = "git_push"
    /\ commands' = Append(commands, "git push")
    /\ error_messages' =
          IF environment.push = "fails" THEN Append(error_messages, "Push failed")
          ELSE error_messages
    /\ script_pc' = "return"
    /\ UNCHANGED <<workspaces, module_bazel, library_json, environment, returned>>
    /\ UNCHANGED graph_vars

\* return len(error_messages) == 0, error_messages
sync_return ==
    /\ script_pc = "return"
    /\ returned' = <<[success |-> Len(error_messages) = 0,
                      error_messages |-> error_messages]>>
    /\ script_pc' = "returned"
    /\ UNCHANGED <<workspaces, module_bazel, library_json, environment, commands,
                   error_messages>>
    /\ UNCHANGED graph_vars

NextSync ==
    \/ \E env \in SyncEnvironments : sync_main(env)
    \/ check_repository
    \/ git_pull_rebase
    \/ has_remote_changes
    \/ has_unpushed_commits
    \/ git_push
    \/ sync_return

SpecSync == InitTools /\ [][NextSync]_vars

\* The positions at which a command was run.
Ran(command) == {i \in 1..Len(commands) : commands[i] = command}

(***************************************************************************)
(* C24: in sync_repository git push is run only after git pull --rebase,   *)
(* and only if the pull succeeded or failed on local uncommitted or        *)
(* unstaged changes while the remote has no new commits; sync_repository   *)
(* returns success exactly when the list of error messages it returns is   *)
(* empty, and every message it recorded is in that list.                   *)
(***************************************************************************)
C24_PushOnlyAfterPullSuccessIffNoError ==
    /\ \A i \in Ran("git push") : \E j \in Ran("git pull --rebase") : j < i
    /\ Ran("git push") # {} =>
          \/ environment.pull = "ok"
          \/ environment.pull = "local_changes" /\ environment.remote = "none"
    /\ script_pc = "returned" =>
          /\ returned[1].success <=> returned[1].error_messages = <<>>
          /\ error_messages # <<>> => returned[1].error_messages = error_messages

\* The pull failed on local changes, the remote had nothing new, the push
\* was run and failed: failure is returned with the one message.
C24_Witness ==
    /\ script_pc = "returned"
    /\ environment.pull = "local_changes"
    /\ commands = <<"git pull --rebase", "git fetch", "git push">>
    /\ ~returned[1].success
    /\ returned[1].error_messages = <<"Push failed">>

(***************************************************************************)
(* pre_release.py.  The names a script takes from module_utils are looked  *)
(* up when the script is loaded: a name module_utils does not define ends  *)
(* the script with ImportError before any of its functions runs.           *)
(***************************************************************************)
\* The functions and classes module_utils.py defines.
module_utils_names ==
    {"get_git_status", "get_current_branch", "get_upstream_branch",
     "count_commits_between", "has_unpushed_commits", "has_remote_changes",
     "git_push", "git_pull_rebase", "git_clone", "Version", "Dependency",
     "parse_module_bazel"}

\* from module_utils import (...) of pre_release.py.
pre_release_imports ==
    {"Version", "parse_module_bazel", "get_git_status", "run_git_command",
     "has_remote_changes", "count_commits_between", "get_current_branch",
     "get_upstream_branch", "git_push"}

\* What pre_release meets:
\*   module_dir      the module directory with its MODULE.bazel exists
\*   status          what check_git_status finds: "clean", "changes",
\*                   "fetch_fails", "detached", "no_upstream", "behind", "ahead"
\*   version         the version line of MODULE.bazel: "ok" or "unreadable"
\*   confirm         the user's answer to "Proceed with version bump"
\*   rewrite         update_module_bazel_version: "ok" or "no_change"
\*   update_library, tests, commit, push    "ok" or "fails"
\*   skip_tests      the --skip-tests flag
\*   continue        the user's answer to "Continue with commit and push?"
PreReleaseEnvironments ==
    [module_dir : BOOLEAN,
     status : {"clean", "changes", "fetch_fails", "detached", "no_upstream",
               "behind", "ahead"},
     version : {"ok", "unreadable"}, confirm : BOOLEAN,
     rewrite : {"ok", "no_change"}, update_library : {"ok", "fails"},
     skip_tests : BOOLEAN, tests : {"ok", "fails"}, continue : BOOLEAN,
     commit : {"ok", "fails"}, push : {"ok", "fails"}]

\* check_git_status of pre_release.py: the commands it runs and its result.
\* A detached HEAD and a branch without upstream pass with a warning.
pre_release_check_git_status(env) ==
    [commands |-> IF env.status = "changes" THEN <<>> ELSE <<"git fetch">>,
     result   |-> env.status \in {"clean", "detached", "no_upstream"}]

\* Steps 6 to 9 of pre_release: tests, git add, git commit, git push.
pre_release_commit_and_push(env, done) ==
    LET tested == IF env.skip_tests THEN done ELSE Append(done, "bazel test")
    IN  IF ~env.skip_tests /\ env.tests = "fails" /\ ~env.continue
        THEN [commands |-> tested, result |-> FALSE]
        ELSE IF env.commit = "fails"
        THEN [commands |-> tested \o <<"git add", "git commit">>, result |-> FALSE]
        ELSE [commands |-> tested \o <<"git add", "git commit", "git push">>,
              result   |-> env.push = "ok"]

\* pre_release: the commands it runs, in order, and the value it returns.
pre_release(env) ==
    LET checked == pre_release_check_git_status(env)
    IN  IF ~env.module_dir THEN [commands |-> <<>>, result |-> FALSE]
        ELSE IF ~checked.result \/ env.version = "unreadable" \/ ~env.confirm
        THEN [commands |-> checked.commands, result |-> FALSE]
        ELSE IF env.rewrite = "no_change"
        THEN [commands |-> checked.commands, result |-> FALSE]
        ELSE IF env.update_library = "fails"
        THEN [commands |-> checked.commands \o <<"write MODULE.bazel", "update_library.py">>,
              result   |-> FALSE]
        ELSE pre_release_commit_and_push(env,
                checked.commands \o <<"write MODULE.bazel", "update_library.py">>)

\* python3 pre_release.py <module_name> --patch is started.
pre_release_main(env) ==
    /\ script_pc = "idle"
    /\ environment' = env
    /\ script_pc' = "pre_release.py"
    /\ UNCHANGED <<workspaces, module_bazel, library_json, commands, error_messages,
                   returned>>
    /\ UNCHANGED graph_vars

\* The script is loaded and, if its imports resolve, pre_release is called.
run_pre_release ==
    /\ script_pc = "pre_release.py"
    /\ IF pre_release_imports \subseteq module_utils_names
       THEN /\ commands' = pre_release(environment).commands
            /\ returned' = <<[raised |-> "", result |-> pre_release(environment).result]>>
       ELSE /\ commands' = commands
            /\ returned' = <<[raised |-> "ImportError", result |-> FALSE]>>
    /\ script_pc' = "exited"
    /\ UNCHANGED <<workspaces, module_bazel, library_json, environment, error_messages>>
    /\ UNCHANGED graph_vars

NextPreRelease ==
    \/ \E env \in PreReleaseEnvironments : pre_release_main(env)
    \/ run_pre_release

SpecPreRelease == InitTools /\ [][NextPreRelease]_vars

\* The first position of a command among those run (0 if it was not run).
FirstRun(command) ==
    IF Ran(command) = {} THEN 0
    ELSE CHOOSE i \in Ran(command) : \A j \in Ran(command) : i <= j

post_release_globals ==
    {"sys", "subprocess", "argparse", "re", "Path", "Optional",
     "parse_module_bazel", "git_push",
     "run_command", "clean_and_pull_module", "get_module_version", "add_to_registry",
     "generate_dependency_graph", "amend_commit_with_graph", "push_registry_changes",
     "find_pio_executable", "publish_to_platformio", "post_release", "main"}

\* What post_release meets:
\*   module_dir    the module directory exists
\*   bazel_clean, pull, add, graph, stage, amend, push, publish
\*                 how the external command ends: "ok" or "fails"
\*   version       the version of MODULE.bazel: "ok" or "unreadable"
\*   graph_files   doc/dependencies.dot and doc/dependencies.svg exist
\*   skip_publish  the --skip-publish flag
\*   continue      the user's answer to "Continue anyway?"
PostReleaseEnvironments ==
    [module_dir : BOOLEAN, bazel_clean : {"ok", "fails"}, pull : {"ok", "fails"},
     version : {"ok", "unreadable"}, add : {"ok", "fails"}, graph : {"ok", "fails"},
     graph_files : BOOLEAN, stage : {"ok", "fails"}, amend : {"ok", "fails"},
     push : {"ok", "fails"}, skip_publish : BOOLEAN, publish : {"ok", "fails"},
     continue : BOOLEAN]

\* The outcome of a function or of post_release: the commands run so far,
\* the value returned and the exception that left it, if any.
Outcome(done, result, raised) == [commands |-> done, result |-> result, raised |-> raised]

\* clean_and_pull_module: bazel clean (its failure is a warning), then the
\* pull through git.Repo inside try/except Exception.
clean_and_pull_module(env, globals) ==
    IF "git" \notin globals
    THEN Outcome(<<"bazel clean">>, FALSE, "")
    ELSE Outcome(<<"bazel clean", "git pull">>, env.pull = "ok", "")

\* amend_commit_with_graph: the graph files are staged with run_git_command,
\* outside any try block, then the commit is amended through git.Repo
\* inside try/except Exception.
amend_commit_with_graph(env, globals, done) ==
    IF ~env.graph_files THEN Outcome(done, TRUE, "")
    ELSE IF "run_git_command" \notin globals THEN Outcome(done, FALSE, "NameError")
    ELSE IF env.stage = "fails" THEN Outcome(Append(done, "git add"), TRUE, "")
    ELSE IF "git" \notin globals THEN Outcome(Append(done, "git add"), FALSE, "")
    ELSE Outcome(done \o <<"git add", "git commit --amend">>, env.amend = "ok", "")

\* Steps 6 and 7 of post_release: push_registry_changes through git.Repo
\* inside try/except Exception, then publish_to_platformio unless skipped.
push_and_publish(env, globals, done) ==
    IF "git" \notin globals THEN Outcome(done, FALSE, "")
    ELSE IF env.push = "fails" THEN Outcome(Append(done, "git push"), FALSE, "")
    ELSE IF env.skip_publish THEN Outcome(Append(done, "git push"), TRUE, "")
    ELSE Outcome(done \o <<"git push", "pio pkg publish">>,
                 env.publish = "ok" \/ env.continue, "")

\* post_release: the commands it runs, in order, and what it returns.
post_release(env, globals) ==
    LET pulled == clean_and_pull_module(env, globals)
    IN  IF ~env.module_dir THEN Outcome(<<>>, FALSE, "")
        ELSE IF ~pulled.result \/ env.version = "unreadable" THEN Outcome(pulled.commands, FALSE, "")
        ELSE IF env.add = "fails" THEN Outcome(Append(pulled.commands, "add.sh"), FALSE, "")
        ELSE IF env.graph = "fails"
        THEN Outcome(pulled.commands \o <<"add.sh", "generate_dependency_graph.py">>, FALSE, "")
        ELSE LET amended == amend_commit_with_graph(env, globals,
                               pulled.commands \o <<"add.sh", "generate_dependency_graph.py">>)
             IN  IF ~amended.result THEN amended
                 ELSE push_and_publish(env, globals, amended.commands)

\* python3 post_release.py <module_name> is started.
post_release_main(env) ==
    /\ script_pc = "idle"
    /\ environment' = env
    /\ script_pc' = "post_release.py"
    /\ UNCHANGED <<workspaces, module_bazel, library_json, commands, error_messages,
                   returned>>
    /\ UNCHANGED graph_vars

\* success = post_release(args.module_name, args.skip_publish)
run_post_release ==
    /\ script_pc = "post_release.py"
    /\ LET r == post_release(environment, post_release_globals)
       IN  /\ commands' = r.commands
           /\ returned' = <<[raised |-> r.raised, result |-> r.result]>>
    /\ script_pc' = "exited"
    /\ UNCHANGED <<workspaces, module_bazel, library_json, environment, error_messages>>
    /\ UNCHANGED graph_vars

NextPostRelease ==
    \/ \E env \in PostReleaseEnvironments : post_release_main(env)
    \/ run_post_release

SpecPostRelease == InitTools /\ [][NextPostRelease]_vars

\* Every external command of post_release succeeds.
EveryCommandSucceeds(env) ==
    /\ env.module_dir /\ env.version = "ok" /\ env.graph_files
    /\ env.bazel_clean = "ok" /\ env.pull = "ok" /\ env.add = "ok" /\ env.graph = "ok"
    /\ env.stage = "ok" /\ env.amend = "ok" /\ env.push = "ok" /\ env.publish = "ok"

(***************************************************************************)
(* C26 as claimed: when every external command succeeds post_release runs  *)
(* bazel clean, git pull, add.sh, the graph generation, the amend of the   *)
(* commit, the push and (unless skipped) the publish in this order and     *)
(* returns success; when a step fails no later step is run.                *)
(***************************************************************************)
C26_Claimed_StepsInOrderThenSuccess ==
    script_pc = "exited" =>
        /\ EveryCommandSucceeds(environment) =>
              /\ returned[1].result /\ returned[1].raised = ""
              /\ commands = <<"bazel clean", "git pull", "add.sh",
                              "generate_dependency_graph.py", "git add",
                              "git commit --amend", "git push">>
                            \o (IF environment.skip_publish THEN <<>>
                                ELSE <<"pio pkg publish">>)
        /\ (Ran("git pull") # {} /\ environment.pull = "fails") => Ran("add.sh") = {}
        /\ (Ran("add.sh") # {} /\ environment.add = "fails") =>
              Ran("generate_dependency_graph.py") = {}
        /\ (Ran("generate_dependency_graph.py") # {} /\ environment.graph = "fails") =>
              Ran("git commit --amend") = {}
        /\ (Ran("git commit --amend") # {} /\ environment.amend = "fails") =>
              Ran("git push") = {}
        /\ (Ran("git push") # {} /\ environment.push = "fails") =>
              Ran("pio pkg publish") = {}

(***************************************************************************)
(* get_untracked_dependencies: the dependencies of an untracked module are *)
(* read from its MODULE.bazel and, when that is missing or gives none,     *)
(* from the "dependencies" object of its library.json.                     *)
(***************************************************************************)
V001 == <<"0", ".", "0", ".", "1">>

\* The version constraints a library.json of the model may hold:
\* ">=1.0.0", ">1.0.0", "=1.0.0", "1.0.0", ">0", "0", "" and ">=2.0".
LibraryConstraints ==
    { <<">", "=">> \o V100, <<">">> \o V100, <<"=">> \o V100, V100,
      <<">", "0">>, <<"0">>, <<>>, <<">", "=">> \o V20 }

\* The library.json files an untracked module of the model may have.
UntrackedLibraryFiles ==
    LET Entries == {<<k, c>> : k \in {LibraryKey("dejwk", "roo_a"), LibraryKey("", "roo_b"),
                                      LibraryKey("dejwk", "roo_io_arduino")},
                               c \in LibraryConstraints}
    IN  {NoFile} \cup
        {[exists |-> TRUE, writable |-> TRUE, content |-> c] :
            c \in {<<>>} \cup {<<e>> : e \in Entries}
                         \cup {p \in Entries \X Entries : p[1][1] # p[2][1]}}

\* The MODULE.bazel files an untracked module of the model may have:
\* missing, without declarations, with an ignored one only, with roo_a@1.0.0.
UntrackedBazelFiles ==
    {NoFile} \cup
    {[exists |-> TRUE, writable |-> TRUE, content |-> c] :
        c \in {<<>>, << <<"glog", V100>> >>, << <<"roo_a", V100>> >>}}

\* s[n+1:] of a text.
DropFirst(s, n) == SubSeq(s, n + 1, Len(s))

\* s.startswith(prefix)
startswith(s, prefix) == Len(s) >= Len(prefix) /\ SubSeq(s, 1, Len(prefix)) = prefix

\* version_str of a version_constraint: ">=", ">" or "=" is cut off, and
\* ">0", "0" and "" stand for 0.0.1.
version_str_of(version_constraint) ==
    LET cut ==
            IF startswith(version_constraint, <<">", "=">>) THEN DropFirst(version_constraint, 2)
            ELSE IF startswith(version_constraint, <<">">>)
            THEN IF DropFirst(version_constraint, 1) = <<"0">> THEN V001
                 ELSE DropFirst(version_constraint, 1)
            ELSE IF startswith(version_constraint, <<"=">>) THEN DropFirst(version_constraint, 1)
            ELSE version_constraint
    IN  IF cut \in {<<"0">>, <<>>} THEN V001 ELSE cut

\* Dependency(name, version) called with a Version object: __init__ hands
\* the object to Version(...), whose re.match takes text only and raises
\* TypeError.
Dependency_of_Version(name, version) == [raised |-> "TypeError", object |-> NoObject]

\* version = Version(version_str); dependency = Dependency(clean_name,
\* version); dependencies.append(dependency), inside try/except Exception:
\* what is appended.
library_dependency(clean_name, version_str) ==
    IF ~ValidVersion(version_str) THEN <<>>
    ELSE IF Dependency_of_Version(clean_name, Version(version_str)).raised # "" THEN <<>>
    ELSE <<Dependency_of_Version(clean_name, Version(version_str)).object>>

\* The loop over deps_dict.items() of the library.json fallback.
RECURSIVE library_dependencies(_)
library_dependencies(deps) ==
    IF deps = <<>> THEN <<>>
    ELSE (IF should_ignore_module(deps[1][1].name) THEN <<>>
          ELSE library_dependency(deps[1][1].name, version_str_of(deps[1][2])))
         \o library_dependencies(Tail(deps))

\* The dependencies get_untracked_dependencies returns for one module.
untracked_dependencies_of(mb, lj) ==
    LET from_bazel == IF mb.exists THEN parse_module_bazel(mb.content) ELSE <<>>
        dependencies ==
            IF from_bazel = <<>> /\ lj.exists THEN library_dependencies(lj.content)
            ELSE from_bazel
    IN  SelectSeq(dependencies, LAMBDA dep : ~should_ignore_module(dep.name))

\* get_untracked_modules finds roo_c beside the registry, with its files.
get_untracked_modules(mb, lj) ==
    /\ pc = "scan"
    /\ DOMAIN untracked_modules = {}
    /\ untracked_modules' = UntrackedIndex
    /\ module_bazel' = mb
    /\ library_json' = lj
    /\ UNCHANGED <<newest_versions, git_statuses, all_dependencies, pc, document_vars>>
    /\ UNCHANGED <<workspaces, environment, script_pc, commands, error_messages, returned>>

\* untracked_dependencies = get_untracked_dependencies(registry_dir,
\* untracked_modules); all_dependencies.update(untracked_dependencies)
get_untracked_dependencies ==
    /\ pc = "scan"
    /\ DOMAIN untracked_modules # {}
    /\ all_dependencies' =
          [m \in DOMAIN untracked_modules |->
              untracked_dependencies_of(module_bazel, library_json)]
    /\ pc' = "dependencies"
    /\ UNCHANGED <<newest_versions, untracked_modules, git_statuses, document_vars>>
    /\ UNCHANGED tool_vars

NextUntracked ==
    \/ \E mb \in UntrackedBazelFiles, lj \in UntrackedLibraryFiles :
          get_untracked_modules(mb, lj)
    \/ get_untracked_dependencies

SpecUntracked == InitTools /\ [][NextUntracked]_vars

(***************************************************************************)
(* C27 as claimed: for an untracked module whose MODULE.bazel is missing   *)
(* or yields no dependencies, every dependency of its library.json whose   *)
(* name is not ignored and whose constraint reduces to a valid version     *)
(* text (">=", ">" or "=" cut off, "0" and "" read as 0.0.1) is in the     *)
(* module's dependency list with that version.                             *)
(***************************************************************************)
C27_Claimed_LibraryJsonFallback ==
    pc = "dependencies" =>
        \A m \in DOMAIN untracked_modules :
            ( /\ ~module_bazel.exists \/ parse_module_bazel(module_bazel.content) = <<>>
              /\ library_json.exists )
            => \A i \in 1..Len(library_json.content) :
                  LET clean_name == library_json.content[i][1].name
                      text == version_str_of(library_json.content[i][2])
                  IN  (~should_ignore_module(clean_name) /\ ValidVersion(text)) =>
                         \E k \in 1..Len(all_dependencies[m]) :
                            /\ all_dependencies[m][k].name = clean_name
                            /\ VersionStr(all_dependencies[m][k].version) = text

(***************************************************************************)
(* pre_release.increment_version: the next major, minor or patch version   *)
(* of a version text.                                                      *)
(***************************************************************************)
\* Number of increment_version calls of one run.
MaxBumps == 2

\* The version texts handed to increment_version: 1.0.0, 0.9.0, 02.0.0 (a
\* leading zero), 1.9.0 and 1.0.9 (a field about to get a second digit),
\* 1.0.0-a (a prerelease tag) and "2.0" (no version).
BumpTexts ==
    { V100, V090, V0200,
      <<"1", ".", "9", ".", "0">>,
      <<"1", ".", "0", ".", "9">>,
      <<"1", ".", "0", ".", "0", "-", "a">>,
      V20 }

\* The bump types: the three of the command line and one that is none.
BumpTypes == {"major", "minor", "patch", "build"}

\* The decimal text of a natural number, as an f-string writes it.
RECURSIVE str_int(_)
str_int(n) ==
    LET digit(d) == <<"0", "1", "2", "3", "4", "5", "6", "7", "8", "9">>[d + 1]
    IN  IF n < 10 THEN <<digit(n)>> ELSE str_int(n \div 10) \o <<digit(n % 10)>>

\* f"{a}.{b}.{c}"
version_text(a, b, c) == str_int(a) \o <<".">> \o str_int(b) \o <<".">> \o str_int(c)

\* Variant of increment_version whose minor bump keeps the patch number.
increment_version_minor_keeps_patch(version_str, bump_type) ==
    IF ~ValidVersion(version_str) THEN [raised |-> "ValueError", result |-> <<>>]
    ELSE LET version == Version(version_str)
         IN  CASE bump_type = "major" ->
                    [raised |-> "", result |-> version_text(version.major + 1, 0, 0)]
               [] bump_type = "minor" ->
                    [raised |-> "",
                     result |-> version_text(version.major, version.minor + 1, version.patch)]
               [] bump_type = "patch" ->
                    [raised |-> "",
                     result |-> version_text(version.major, version.minor, version.patch + 1)]
               [] OTHER -> [raised |-> "ValueError", result |-> <<>>]

\* increment_version: str(new_version), or the ValueError of Version(...)
\* or of an invalid bump_type.
increment_version(version_str, bump_type) ==
    IF ~ValidVersion(version_str) THEN [raised |-> "ValueError", result |-> <<>>]
    ELSE LET version == Version(version_str)
         IN  CASE bump_type = "major" ->
                    [raised |-> "",
                     result |-> VersionStr(Version(version_text(version.major + 1, 0, 0)))]
               [] bump_type = "minor" ->
                    [raised |-> "",
                     result |-> VersionStr(Version(
                                   version_text(version.major, version.minor + 1, 0)))]
               [] bump_type = "patch" ->
                    [raised |-> "",
                     result |-> VersionStr(Version(
                                   version_text(version.major, version.minor,
                                                version.patch + 1)))]
               [] OTHER -> [raised |-> "ValueError", result |-> <<>>]

\* new_version = increment_version(current_version, bump_type) is called
\* and what it was called with and what came of it is kept.
call_increment_version(version_str, bump_type) ==
    /\ Len(returned) < MaxBumps
    /\ returned' = Append(returned,
          [version_str |-> version_str, bump_type |-> bump_type,
           raised |-> increment_version(version_str, bump_type).raised,
           result |-> increment_version(version_str, bump_type).result])
    /\ UNCHANGED <<workspaces, module_bazel, library_json, environment, script_pc,
                   commands, error_messages>>
    /\ UNCHANGED graph_vars

NextBump ==
    \E version_str \in BumpTexts, bump_type \in BumpTypes :
        call_increment_version(version_str, bump_type)

SpecBump == InitTools /\ [][NextBump]_vars

\* The numbers M.m.p of a version object.
Numbers(v) == <<v.major, v.minor, v.patch>>

(***************************************************************************)
(* C30: for every valid version M.m.p, with or without a prerelease tag,   *)
(* increment_version returns (M+1).0.0 for 'major', M.(m+1).0 for 'minor'  *)
(* and M.m.(p+1) for 'patch', without a prerelease tag, and the result is  *)
(* strictly greater than the input under the Version order; any other     *)
(* bump type raises an error.                                              *)
(***************************************************************************)
C30_BumpIsNextVersionAndGreater ==
    \A i \in 1..Len(returned) :
        LET call == returned[i]
            old  == Version(call.version_str)
            new  == Version(call.result)
        IN  ValidVersion(call.version_str) =>
               IF call.bump_type \in {"major", "minor", "patch"}
               THEN /\ call.raised = ""
                    /\ ValidVersion(call.result)
                    /\ Numbers(new) =
                          CASE call.bump_type = "major" -> <<old.major + 1, 0, 0>>
                            [] call.bump_type = "minor" -> <<old.major, old.minor + 1, 0>>
                            [] OTHER -> <<old.major, old.minor, old.patch + 1>>
                    /\ new.prerelease = NoPrerelease
                    /\ VersionLt(old, new) /\ ~VersionLt(new, old)
               ELSE call.raised = "ValueError"

\* The minor bump of 1.9.0 gave 1.10.0 and the patch bump of 1.0.0-a gave
\* 1.0.1.
C30_Witness ==
    /\ Len(returned) = 2
    /\ returned[1].version_str = <<"1", ".", "9", ".", "0">>
    /\ returned[1].bump_type = "minor"
    /\ returned[1].result = <<"1", ".", "1", "0", ".", "0">>
    /\ returned[2].version_str = <<"1", ".", "0", ".", "0", "-", "a">>
    /\ returned[2].bump_type = "patch"
    /\ returned[2].result = <<"1", ".", "0", ".", "1">>

====
